---------------------------- MODULE Spec2Model ----------------------------
(***************************************************************************)
(* A model of bibloclean: the field normalisers of BibliotecaDataProcessor *)
(* (pure functions over Python values) and its table pipeline              *)
(* (cargar_datos, filtrar_registros_con_biblioteca, transformar_datos,     *)
(* guardar_resultados).                                                    *)
(*                                                                         *)
(* Python strings are TLA+ strings; Len, SubSeq and \o act on them as on   *)
(* sequences of characters.  A Python value is a record [t, v]: its type   *)
(* and its payload.  A raised exception is the value Raise(name).          *)
(***************************************************************************)
EXTENDS Integers, Sequences, FiniteSets, TLC

(***************************************************************************)
(* Python values.                                                          *)
(***************************************************************************)
Str(s) == [t |-> "str", v |-> s]
NaN == [t |-> "float", v |-> "nan"]
None == [t |-> "NoneType", v |-> "None"]
Raise(e) == [t |-> "raise", v |-> e]

Tuple(par) == [t |-> "tuple", v |-> par]
\* No value yet: the call has not been made.
Pendiente == [t |-> "pendiente", v |-> ""]

\* pd.isna / pd.isnull of a scalar: None and float nan.
isna(x) == x.t = "NoneType" \/ (x.t = "float" /\ x.v = "nan")
isinstance_str(x) == x.t = "str"
raised(x) == x.t = "raise"

(***************************************************************************)
(* Characters and the str methods the normalisers use.                     *)
(***************************************************************************)
Whitespace == {" ", "\t"}
Digits == {"0", "1", "2", "3", "4", "5", "6", "7", "8", "9"}
LowerChars == "abcdefghijklmnopqrstuvwxyzáéíóúüñö"
UpperChars == "ABCDEFGHIJKLMNOPQRSTUVWXYZÁÉÍÓÚÜÑÖ"

Ch(s, i) == SubSeq(s, i, i)
Take(s, n) == SubSeq(s, 1, n)
Drop(s, n) == SubSeq(s, n + 1, Len(s))

LowerSet == {Ch(LowerChars, i) : i \in 1..Len(LowerChars)}
UpperSet == {Ch(UpperChars, i) : i \in 1..Len(UpperChars)}
islower_ch(c) == c \in LowerSet
isupper_ch(c) == c \in UpperSet
iscased(c) == islower_ch(c) \/ isupper_ch(c)
isdigit(c) == c \in Digits
\* \w of the re module: letters, digits and the underscore.
isword(c) == iscased(c) \/ isdigit(c) \/ c = "_"

upper_ch(c) ==
    IF islower_ch(c)
    THEN Ch(UpperChars, CHOOSE i \in 1..Len(LowerChars) : Ch(LowerChars, i) = c)
    ELSE c
lower_ch(c) ==
    IF isupper_ch(c)
    THEN Ch(LowerChars, CHOOSE i \in 1..Len(UpperChars) : Ch(UpperChars, i) = c)
    ELSE c

RECURSIVE lower(_)
lower(s) == IF s = "" THEN "" ELSE lower_ch(Ch(s, 1)) \o lower(Drop(s, 1))

RECURSIVE upper(_)
upper(s) == IF s = "" THEN "" ELSE upper_ch(Ch(s, 1)) \o upper(Drop(s, 1))

\* str.title(): a cased character is upper-cased after an uncased one (or at the
\* start) and lower-cased after a cased one.
RECURSIVE title_from(_, _)
title_from(s, prev_cased) ==
    IF s = "" THEN ""
    ELSE LET c == Ch(s, 1)
         IN  (IF prev_cased THEN lower_ch(c) ELSE upper_ch(c))
                 \o title_from(Drop(s, 1), iscased(c))
title(s) == title_from(s, FALSE)

\* str.capitalize(): first character upper-cased, the rest lower-cased.
capitalize(s) == IF s = "" THEN "" ELSE upper_ch(Ch(s, 1)) \o lower(Drop(s, 1))

\* str.isupper(): at least one cased character and no lower-case one.
isupper(s) ==
    /\ \E i \in 1..Len(s) : isupper_ch(Ch(s, i))
    /\ \A i \in 1..Len(s) : ~islower_ch(Ch(s, i))

RECURSIVE lstrip_chars(_, _)
lstrip_chars(s, chars) ==
    IF s # "" /\ Ch(s, 1) \in chars THEN lstrip_chars(Drop(s, 1), chars) ELSE s

RECURSIVE rstrip_chars(_, _)
rstrip_chars(s, chars) ==
    IF s # "" /\ Ch(s, Len(s)) \in chars
    THEN rstrip_chars(Take(s, Len(s) - 1), chars)
    ELSE s

strip_chars(s, chars) == rstrip_chars(lstrip_chars(s, chars), chars)
strip(s) == strip_chars(s, Whitespace)

startswith(s, p) == Len(s) >= Len(p) /\ Take(s, Len(p)) = p

\* sub in s
contains(s, sub) ==
    \E i \in 1..(Len(s) - Len(sub) + 1) : SubSeq(s, i, i + Len(sub) - 1) = sub

\* str.replace(old, new), old not empty: leftmost occurrences, not overlapping.
RECURSIVE replace(_, _, _)
replace(s, old, new) ==
    IF Len(s) < Len(old) THEN s
    ELSE IF startswith(s, old)
         THEN new \o replace(Drop(s, Len(old)), old, new)
         ELSE Ch(s, 1) \o replace(Drop(s, 1), old, new)

\* Every character of chars removed from s.
RECURSIVE remove_chars(_, _)
remove_chars(s, chars) ==
    IF s = "" THEN ""
    ELSE (IF Ch(s, 1) \in chars THEN "" ELSE Ch(s, 1))
             \o remove_chars(Drop(s, 1), chars)

\* str.split(sep), sep one character: a list that keeps the empty pieces.
RECURSIVE split(_, _)
split(s, sep) ==
    IF ~contains(s, sep) THEN <<s>>
    ELSE LET i == CHOOSE k \in 1..Len(s) :
                      /\ Ch(s, k) = sep
                      /\ \A j \in 1..(k - 1) : Ch(s, j) # sep
         IN  <<Take(s, i - 1)>> \o split(Drop(s, i), sep)

\* str.split() with no separator: the maximal runs of non-whitespace.
RECURSIVE split_ws(_)
split_ws(s) ==
    LET u == lstrip_chars(s, Whitespace)
    IN  IF u = "" THEN <<>>
        ELSE LET n == CHOOSE k \in 1..Len(u) :
                          /\ \A j \in 1..k : Ch(u, j) \notin Whitespace
                          /\ (k = Len(u) \/ Ch(u, k + 1) \in Whitespace)
             IN  <<Take(u, n)>> \o split_ws(Drop(u, n))

\* sep.join(list)
RECURSIVE join(_, _)
join(list, sep) ==
    IF list = <<>> THEN ""
    ELSE IF Len(list) = 1 THEN list[1]
    ELSE list[1] \o sep \o join(Tail(list), sep)

\* " ".join(s.split())
collapse_ws(s) == join(split_ws(s), " ")

\* The elements of list that satisfy Keep, in order: [x for x in list if Keep(x)].
RECURSIVE filter_nonempty(_)
filter_nonempty(list) ==
    IF list = <<>> THEN <<>>
    ELSE (IF list[1] # "" THEN <<list[1]>> ELSE <<>>) \o filter_nonempty(Tail(list))

strip_each(list) == [i \in DOMAIN list |-> strip(list[i])]


(***************************************************************************)
(* _normalizar_nombre_autor                                                *)
(***************************************************************************)
titulos_academicos == <<"Dr.", "PhD.", "Ph.D.", "Mr.", "Mrs.", "Ms.">>
prefijos == <<"Von", "Van", "De", "Del", "La", "Las", "Los">>

\* for titulo in [...]: autor = autor.replace(titulo, "")
RECURSIVE quitar_titulos(_, _)
quitar_titulos(autor, i) ==
    IF i > Len(titulos_academicos) THEN autor
    ELSE quitar_titulos(replace(autor, titulos_academicos[i], ""), i + 1)

\* for prefijo in [...]: lower-case it between spaces and at the start.
RECURSIVE bajar_prefijos(_, _)
bajar_prefijos(autor, i) ==
    IF i > Len(prefijos) THEN autor
    ELSE LET p == prefijos[i]
             a == replace(autor, " " \o p \o " ", " " \o lower(p) \o " ")
             b == IF startswith(a, p \o " ") THEN lower(p) \o Drop(a, Len(p)) ELSE a
         IN  bajar_prefijos(b, i + 1)

\* The first raised exception of a list of results, or None.
RECURSIVE primera_excepcion(_)
primera_excepcion(rs) ==
    IF rs = <<>> THEN None
    ELSE IF raised(rs[1]) THEN rs[1]
    ELSE primera_excepcion(Tail(rs))

\* One author without ';': titles removed, "Apellido, Nombre" title-cased.
\* partes[0] of an empty list raises IndexError.
autor_simple(autor) ==
    LET sin == quitar_titulos(autor, 1)
        partes == filter_nonempty(strip_each(split(sin, ",")))
    IN  IF partes = <<>> THEN Raise("IndexError")
        ELSE LET nombre == IF Len(partes) >= 2
                           THEN title(partes[1]) \o ", " \o title(partes[2])
                           ELSE title(partes[1])
             IN  Str(collapse_ws(bajar_prefijos(nombre, 1)))

\* The method on a string: the guard, the strip, the split on ';' with one
\* recursive call per segment.
RECURSIVE autor_de_texto(_)
autor_de_texto(texto) ==
    IF texto = "" \/ strip(texto) = "" THEN Str("Desconocido")
    ELSE LET autor == rstrip_chars(strip(texto), {".", ","})
         IN  IF contains(autor, ";")
             THEN LET segs == split(autor, ";")
                      rs == [i \in DOMAIN segs |-> autor_de_texto(strip(segs[i]))]
                      exc == primera_excepcion(rs)
                  IN  IF raised(exc) THEN exc
                      ELSE Str(join([i \in DOMAIN rs |-> rs[i].v], "; "))
             ELSE autor_simple(autor)

normalizar_nombre_autor(autor) ==
    IF isna(autor) THEN Str("Desconocido") ELSE autor_de_texto(autor.v)

(***************************************************************************)
(* _normalizar_titulo                                                      *)
(***************************************************************************)
puntuacion == {"/", ",", ":", ";", "."}
caracteres_invalidos == {"#", "%", "&", "*", "{", "}", "[", "]", "^", "~"}

\* The length of the run of characters of chars that starts s.
RECURSIVE run_len(_, _)
run_len(s, chars) ==
    IF s # "" /\ Ch(s, 1) \in chars THEN 1 + run_len(Drop(s, 1), chars) ELSE 0

\* re.sub(r"\s+([/,:;.])", r"\1", s): a whitespace run right before a
\* punctuation sign is removed.
RECURSIVE sub_espacio_antes(_)
sub_espacio_antes(s) ==
    IF s = "" THEN ""
    ELSE LET n == run_len(s, Whitespace)
         IN  IF n > 0 /\ n < Len(s) /\ Ch(s, n + 1) \in puntuacion
             THEN Ch(s, n + 1) \o sub_espacio_antes(Drop(s, n + 1))
             ELSE Ch(s, 1) \o sub_espacio_antes(Drop(s, 1))

\* re.sub(r"([/,:;.])\s+", r"\1 ", s): a whitespace run right after a
\* punctuation sign becomes one space.
RECURSIVE sub_espacio_despues(_)
sub_espacio_despues(s) ==
    IF s = "" THEN ""
    ELSE LET n == run_len(Drop(s, 1), Whitespace)
         IN  IF Ch(s, 1) \in puntuacion /\ n > 0
             THEN Ch(s, 1) \o " " \o sub_espacio_despues(Drop(s, n + 1))
             ELSE Ch(s, 1) \o sub_espacio_despues(Drop(s, 1))

\* The method on a non-blank string.  The last substitution of the source,
\* re.sub(r"\b([A-Z])(\+\+)\b", r"\1\2", titulo), writes each match back as it
\* was found and changes nothing.
titulo_de_texto(texto) ==
    LET t1 == strip(texto)
        t2 == lstrip_chars(t1, Digits \cup {";"})
        t3 == rstrip_chars(t2, {"/", ",", ":"} \cup Whitespace)
        t4 == remove_chars(t3, caracteres_invalidos)
        t5 == sub_espacio_antes(t4)
        t6 == sub_espacio_despues(t5)
    IN  collapse_ws(t6)

normalizar_titulo(titulo) ==
    IF isna(titulo) THEN Str("Sin título")
    ELSE IF titulo.v = "" \/ strip(titulo.v) = "" THEN Str("Sin título")
    ELSE Str(titulo_de_texto(titulo.v))

(***************************************************************************)
(* _normalizar_lugar_publicacion                                           *)
(***************************************************************************)
\* re.sub(r"\s*\([^)]*\)", "", s): a parenthesised aside and the whitespace
\* before it are removed; an opening parenthesis that is never closed stays.
RECURSIVE quitar_parentesis(_)
quitar_parentesis(s) ==
    IF s = "" THEN ""
    ELSE LET n == run_len(s, Whitespace)
             resto == Drop(s, n)
         IN  IF resto # "" /\ Ch(resto, 1) = "(" /\ contains(resto, ")")
             THEN LET k == CHOOSE j \in 1..Len(resto) :
                               /\ Ch(resto, j) = ")"
                               /\ \A i \in 1..(j - 1) : Ch(resto, i) # ")"
                  IN  quitar_parentesis(Drop(resto, k))
             ELSE Ch(s, 1) \o quitar_parentesis(Drop(s, 1))

\* normalizaciones_ciudades, in the order of the dict.
normalizaciones_ciudades ==
    << <<"Santafé de Bogotá", "Bogotá">>,
       <<"Bogota", "Bogotá">>,
       <<"Cartagena de Indias", "Cartagena">>,
       <<"México", "Ciudad de México">>,
       <<"Mexico", "Ciudad de México">>,
       <<"Ciudad de Ciudad de México", "Ciudad de México">>,
       <<"Köln", "Colonia">>,
       <<"Koln", "Colonia">>,
       <<"Salmanca", "Salamanca">>,
       <<"New York", "Nueva York">> >>

\* The loop over the dict: each key found in ciudad overwrites ciudad_norm with
\* ciudad (not ciudad_norm) in which that key is replaced.
RECURSIVE aplicar_alias(_, _, _)
aplicar_alias(ciudad, ciudad_norm, i) ==
    IF i > Len(normalizaciones_ciudades) THEN ciudad_norm
    ELSE LET par == normalizaciones_ciudades[i]
         IN  aplicar_alias(ciudad,
                           IF contains(ciudad, par[1])
                           THEN replace(ciudad, par[1], par[2])
                           ELSE ciudad_norm,
                           i + 1)

normalizar_ciudad(ciudad) ==
    LET alias == aplicar_alias(ciudad, ciudad, 1)
        sin_digitos == strip(remove_chars(alias, Digits))
    IN  IF \/ contains(lower(sin_digitos), "no identificado")
           \/ contains(lower(sin_digitos), "##")
           \/ startswith(sin_digitos, "#")
        THEN "Lugar no identificado"
        ELSE sin_digitos

\* The last two cities taken (ciudades[-2:]) in the place of the first two.
normalizar_lugar_publicacion_ultimas(valor) ==
    IF isna(valor) THEN <<"Lugar no identificado", "">>
    ELSE LET v1 == strip(valor.v)
             v2 == replace(replace(replace(replace(replace(v1,
                       ";", ","), ":", ""), "[", ""), "]", ""), "©", "")
             v3 == collapse_ws(quitar_parentesis(v2))
             ciudades == strip_each(split(v3, ","))
             dos == SubSeq(ciudades, IF Len(ciudades) < 2 THEN 1 ELSE Len(ciudades) - 1,
                           Len(ciudades))
             normalizadas == [i \in DOMAIN dos |-> normalizar_ciudad(dos[i])]
         IN  IF normalizadas[1] = "" THEN <<"Lugar no identificado", "">>
             ELSE IF Len(normalizadas) = 1 THEN <<normalizadas[1], "">>
             ELSE <<normalizadas[1], normalizadas[2]>>

\* The result is the pair <<ciudad 1, ciudad 2>>.
normalizar_lugar_publicacion(valor) ==
    IF isna(valor) THEN <<"Lugar no identificado", "">>
    ELSE LET v1 == strip(valor.v)
             v2 == replace(replace(replace(replace(replace(v1,
                       ";", ","), ":", ""), "[", ""), "]", ""), "©", "")
             v3 == collapse_ws(quitar_parentesis(v2))
             ciudades == strip_each(split(v3, ","))
             dos == SubSeq(ciudades, 1, IF Len(ciudades) < 2 THEN Len(ciudades) ELSE 2)
             normalizadas == [i \in DOMAIN dos |-> normalizar_ciudad(dos[i])]
         IN  IF normalizadas[1] = "" THEN <<"Lugar no identificado", "">>
             ELSE IF Len(normalizadas) = 1 THEN <<normalizadas[1], "">>
             ELSE <<normalizadas[1], normalizadas[2]>>

(***************************************************************************)
(* _normalizar_numero_clasificacion_dewey                                  *)
(***************************************************************************)
\* Every character that is neither a digit nor 'R' removed: [^\dR].
RECURSIVE solo_digitos_y_R(_)
solo_digitos_y_R(s) ==
    IF s = "" THEN ""
    ELSE (IF Ch(s, 1) \in Digits \cup {"R"} THEN Ch(s, 1) ELSE "")
             \o solo_digitos_y_R(Drop(s, 1))

\* The pattern with (\d) in the place of (\d+): one digit only.
primer_numero_un_digito(s) ==
    LET P == {i \in 1..Len(s) : Ch(s, i) \in Digits}
    IN  IF P = {} THEN "" ELSE Ch(s, CHOOSE i \in P : \A j \in P : i <= j)

\* Group 1 of re.search(r'(?:^R\s*)?(\d+)', s): the first run of digits of s,
\* "" when s has no digit (no match).
RECURSIVE primer_numero(_)
primer_numero(s) ==
    IF s = "" THEN ""
    ELSE IF Ch(s, 1) \in Digits THEN Take(s, run_len(s, Digits))
    ELSE primer_numero(Drop(s, 1))

\* The variant that returns the first three digits, padded with zeros, in the
\* place of the hundreds class.
normalizar_numero_clasificacion_dewey_prefijo(raw_dewey_number) ==
    IF raw_dewey_number = None \/ raw_dewey_number = Str("") THEN Str("")
    ELSE IF ~isinstance_str(raw_dewey_number) THEN Raise("TypeError")
    ELSE LET number == primer_numero(solo_digitos_y_R(raw_dewey_number.v))
         IN  IF number = "" THEN Str("")
             ELSE IF startswith(strip(raw_dewey_number.v), "R") THEN Str("R")
             ELSE Str(Take(number \o "00", 3))

\* "not raw_dewey_number" is true of None and of "", false of nan; re.sub on a
\* float raises TypeError.
normalizar_numero_clasificacion_dewey(raw_dewey_number) ==
    IF raw_dewey_number = None \/ raw_dewey_number = Str("") THEN Str("")
    ELSE IF ~isinstance_str(raw_dewey_number) THEN Raise("TypeError")
    ELSE LET number == primer_numero(solo_digitos_y_R(raw_dewey_number.v))
         IN  IF number = "" THEN Str("")
             ELSE IF startswith(strip(raw_dewey_number.v), "R") THEN Str("R")
             ELSE IF Len(number) < 3 \/ Ch(number, 1) = "0" THEN Str("0")
             ELSE Str(Ch(number, 1) \o "00")

(***************************************************************************)
(* _normalizar_fecha_publicacion                                           *)
(***************************************************************************)
digit_value(c) == CHOOSE n \in 0..9 : Ch("0123456789", n + 1) = c

\* int(s) of a string of digits.
RECURSIVE to_int(_)
to_int(s) ==
    IF s = "" THEN 0
    ELSE 10 * to_int(Take(s, Len(s) - 1)) + digit_value(Ch(s, Len(s)))

\* The greatest element of a non-empty list under Key, the first one on a tie:
\* max(list, key=Key).
RECURSIVE max_by(_, _, _)
max_by(list, Key(_), best) ==
    IF list = <<>> THEN best
    ELSE max_by(Tail(list), Key, IF Key(list[1]) > Key(best) THEN list[1] ELSE best)

\* re.sub(r"c|circa|Ariel|Aprox\.?", "", s, flags=re.IGNORECASE): the
\* alternatives are tried in order at each position, so "c" wins over "circa".
RECURSIVE quitar_abreviaturas(_)
quitar_abreviaturas(s) ==
    IF s = "" THEN ""
    ELSE IF lower(Ch(s, 1)) = "c" THEN quitar_abreviaturas(Drop(s, 1))
    ELSE IF Len(s) >= 5 /\ lower(Take(s, 5)) = "ariel"
         THEN quitar_abreviaturas(Drop(s, 5))
    ELSE IF Len(s) >= 5 /\ lower(Take(s, 5)) = "aprox"
         THEN quitar_abreviaturas(
                  Drop(s, IF Len(s) >= 6 /\ Ch(s, 6) = "." THEN 6 ELSE 5))
    ELSE Ch(s, 1) \o quitar_abreviaturas(Drop(s, 1))

\* re.findall(r"\b\d{4}\b", s) from position i on: four digits with no word
\* character on either side.
RECURSIVE anios_aislados(_, _)
anios_aislados(s, i) ==
    IF i + 3 > Len(s) THEN <<>>
    ELSE IF /\ \A k \in i..(i + 3) : isdigit(Ch(s, k))
            /\ (i = 1 \/ ~isword(Ch(s, i - 1)))
            /\ (i + 3 = Len(s) \/ ~isword(Ch(s, i + 4)))
         THEN <<SubSeq(s, i, i + 3)>> \o anios_aislados(s, i + 4)
         ELSE anios_aislados(s, i + 1)

\* The first year found returned in the place of the greatest.
normalizar_fecha_publicacion_primero(fecha) ==
    IF isna(fecha) THEN NaN
    ELSE LET f1 == remove_chars(fecha.v, {";", "#", "©", "\\"})
             f2 == remove_chars(f1, {"[", "]", "?"})
             f3 == quitar_abreviaturas(f2)
             f4 == rstrip_chars(f3, {"."})
             encontrados == anios_aislados(f4, 1)
         IN  IF encontrados = <<>> THEN NaN ELSE Str(encontrados[1])

normalizar_fecha_publicacion(fecha) ==
    IF isna(fecha) THEN NaN
    ELSE LET f1 == remove_chars(fecha.v, {";", "#", "©", "\\"})
             f2 == remove_chars(f1, {"[", "]", "?"})
             f3 == quitar_abreviaturas(f2)
             f4 == rstrip_chars(f3, {"."})
             encontrados == anios_aislados(f4, 1)
         IN  IF encontrados = <<>> THEN NaN
             ELSE Str(max_by(Tail(encontrados), to_int, encontrados[1]))

(***************************************************************************)
(* _normalizar_periodo                                                     *)
(***************************************************************************)
valores_romanos ==
    << <<1000, "M">>, <<900, "CM">>, <<500, "D">>, <<400, "CD">>, <<100, "C">>,
       <<90, "XC">>, <<50, "L">>, <<40, "XL">>, <<10, "X">>, <<9, "IX">>,
       <<5, "V">>, <<4, "IV">>, <<1, "I">> >>

\* The loop of año_a_siglo_romano over valores, from entry i with siglo left.
RECURSIVE a_romano(_, _)
a_romano(siglo, i) ==
    IF i > Len(valores_romanos) THEN ""
    ELSE IF siglo >= valores_romanos[i][1]
         THEN valores_romanos[i][2] \o a_romano(siglo - valores_romanos[i][1], i)
         ELSE a_romano(siglo, i + 1)

\* (año - 1) // 100 + 1 with Python's floor division.
anio_a_siglo_romano(anio) == a_romano(((anio - 1) \div 100) + 1, 1)

valor_letra(c) ==
    CASE c = "I" -> 1 [] c = "V" -> 5 [] c = "X" -> 10 [] c = "L" -> 50
      [] c = "C" -> 100 [] c = "D" -> 500 [] c = "M" -> 1000

\* The loop of valor_siglo_romano over reversed(siglo_romano.upper()): s is what
\* is left to read, from its last character.
RECURSIVE valor_desde(_, _)
valor_desde(s, prev_valor) ==
    IF s = "" THEN 0
    ELSE LET curr_valor == valor_letra(Ch(s, Len(s)))
         IN  (IF curr_valor >= prev_valor THEN curr_valor ELSE 0 - curr_valor)
                 + valor_desde(Take(s, Len(s) - 1), curr_valor)
valor_siglo_romano(siglo_romano) == valor_desde(upper(siglo_romano), 0)

\* re.sub(r"\s+", " ", s)
RECURSIVE un_espacio(_)
un_espacio(s) ==
    IF s = "" THEN ""
    ELSE LET n == run_len(s, Whitespace)
         IN  IF n > 0 THEN " " \o un_espacio(Drop(s, n))
             ELSE Ch(s, 1) \o un_espacio(Drop(s, 1))

\* re.findall(r"\d{4}", s): runs of four digits, left to right, not overlapping.
RECURSIVE anios(_)
anios(s) ==
    IF Len(s) < 4 THEN <<>>
    ELSE IF \A k \in 1..4 : isdigit(Ch(s, k))
         THEN <<Take(s, 4)>> \o anios(Drop(s, 4))
         ELSE anios(Drop(s, 1))

\* The alternatives of patron_siglos, in the order the pattern tries them.
numerales ==
    <<"xxi", "xx", "xix", "xviii", "xvii", "xvi", "xv", "xiv", "xiii", "xii",
      "xi", "x", "ix", "viii", "vii", "vi", "v", "iv", "iii", "ii", "i">>

\* The first numeral of the pattern that starts s, "" if none does.
RECURSIVE numeral_al_inicio(_, _)
numeral_al_inicio(s, i) ==
    IF i > Len(numerales) THEN ""
    ELSE IF startswith(s, numerales[i]) THEN numerales[i]
    ELSE numeral_al_inicio(s, i + 1)

\* The length of the prefix (?:siglos?\s*|-) at the start of s, 0 if absent.
prefijo_siglo(s) ==
    IF startswith(s, "siglo")
    THEN LET n == IF startswith(s, "siglos") THEN 6 ELSE 5
         IN  n + run_len(Drop(s, n), Whitespace)
    ELSE IF startswith(s, "-") THEN 1
    ELSE 0

\* re.findall(patron_siglos, s)
RECURSIVE siglos_encontrados(_)
siglos_encontrados(s) ==
    IF s = "" THEN <<>>
    ELSE LET n == prefijo_siglo(s)
             num == numeral_al_inicio(Drop(s, n), 1)
         IN  IF n > 0 /\ num # ""
             THEN <<num>> \o siglos_encontrados(Drop(s, n + Len(num)))
             ELSE siglos_encontrados(Drop(s, 1))

\* The variant that takes the first century the pattern finds, not the greatest.
normalizar_periodo_primer_siglo(periodo) ==
    IF ~isinstance_str(periodo) THEN None
    ELSE IF periodo.v = "" THEN None
    ELSE LET texto == un_espacio(strip(lower(periodo.v)))
             encontrados == anios(texto)
             siglos == siglos_encontrados(texto)
         IN  IF encontrados # <<>>
             THEN Str(anio_a_siglo_romano(
                          to_int(max_by(Tail(encontrados), to_int, encontrados[1]))))
             ELSE IF siglos # <<>> THEN Str(upper(siglos[1]))
             ELSE None
normalizar_periodo(periodo) ==
    IF ~isinstance_str(periodo) THEN None
    ELSE IF periodo.v = "" THEN None
    ELSE LET texto == un_espacio(strip(lower(periodo.v)))
             encontrados == anios(texto)
             siglos == siglos_encontrados(texto)
         IN  IF encontrados # <<>>
             THEN Str(anio_a_siglo_romano(
                          to_int(max_by(Tail(encontrados), to_int, encontrados[1]))))
             ELSE IF siglos # <<>>
             THEN Str(upper(max_by(Tail(siglos), valor_siglo_romano, siglos[1])))
             ELSE None

(***************************************************************************)
(* _normalizar_editorial                                                   *)
(***************************************************************************)
\* normalize = lambda x: " ".join(w if w.isupper() else w.capitalize() ...)
normalize(x) ==
    LET ws == split_ws(x)
    IN  join([i \in DOMAIN ws |-> IF isupper(ws[i]) THEN ws[i] ELSE capitalize(ws[i])],
             " ")

\* The result is the pair <<editorial principal, editorial secundaria>>.
normalizar_editorial(editorial) ==
    IF isna(editorial) THEN <<"Editorial no identificada", "">>
    ELSE IF editorial.v = "" \/ editorial.v = "##"
    THEN <<"Editorial no identificada", "">>
    ELSE LET e1 == quitar_parentesis(strip(editorial.v))
             e2 == replace(replace(e1, ",;", ";"), ",", ";")
             lista == filter_nonempty(strip_each(split(e2, ";")))
             editoriales == [i \in DOMAIN lista |->
                                normalize(strip_chars(lista[i], {"."}))]
         IN  IF editoriales = <<>> THEN <<"Editorial no identificada", "">>
             ELSE IF Len(editoriales) = 1 THEN <<editoriales[1], "">>
             ELSE <<editoriales[1], editoriales[2]>>

(***************************************************************************)
(* Subject enrichment: ProcesadorMateriasEmbeddings.                       *)
(***************************************************************************)
\* unicodedata.normalize("NFD", c) without its combining marks (category Mn).
ConAcento == "áéíóúüñöÁÉÍÓÚÜÑÖ"
SinAcento == "aeiouunoAEIOUUNO"
quitar_acento(c) ==
    IF \E i \in 1..Len(ConAcento) : Ch(ConAcento, i) = c
    THEN Ch(SinAcento, CHOOSE i \in 1..Len(ConAcento) : Ch(ConAcento, i) = c)
    ELSE c

RECURSIVE quitar_acentos(_)
quitar_acentos(s) ==
    IF s = "" THEN "" ELSE quitar_acento(Ch(s, 1)) \o quitar_acentos(Drop(s, 1))

\* re.sub(r"\([^)]*\)", "", s)
RECURSIVE quitar_texto_entre_parentesis(_)
quitar_texto_entre_parentesis(s) ==
    IF s = "" THEN ""
    ELSE IF Ch(s, 1) = "(" /\ contains(s, ")")
         THEN LET k == CHOOSE j \in 1..Len(s) :
                           /\ Ch(s, j) = ")"
                           /\ \A i \in 1..(j - 1) : Ch(s, i) # ")"
              IN  quitar_texto_entre_parentesis(Drop(s, k))
         ELSE Ch(s, 1) \o quitar_texto_entre_parentesis(Drop(s, 1))

normalizar_texto(texto) ==
    LET t1 == strip(lower(quitar_acentos(texto)))
        t2 == quitar_texto_entre_parentesis(t1)
        t3 == replace(t2, "en la literatura", "")
    IN  strip(t3)

\* The state of one ProcesadorMateriasEmbeddings and of the call made on it.
VARIABLES
    linea,              \* the subject value the processor is given
    terminos,           \* self.tesauro_terminos: the candidate terms
    coseno,             \* the cosine similarity of each encoded text to each label
    llamada,            \* the last call of the enrichment and its arguments
    resultado           \* what the last call returned

vars_materias == <<linea, terminos, coseno, llamada, resultado>>

\* The dataclass Termino; the parent fields are None on a root term.
Termino(notacion, etiqueta, uri, nivel, hijos, notacion_padre, etiqueta_padre) ==
    [notacion |-> notacion, etiqueta |-> etiqueta, uri |-> uri, nivel |-> nivel,
     hijos |-> hijos, notacion_padre |-> notacion_padre,
     etiqueta_padre |-> etiqueta_padre]

\* A thesaurus as extraer_vocabulario returns it: the root terms, each with
\* its subtree.
tesauro ==
    << Termino("6", "Cultura", "u6", 1,
         << Termino("6.05", "Ciencias históricas", "u605", 2,
              << Termino("6.05.01", "Historia", "u60501", 3, <<>>,
                         Str("6.05"), Str("Ciencias históricas")) >>,
              Str("6"), Str("Cultura")),
            Termino("6.10", "Artes", "u610", 2,
              << Termino("6.10.01", "Arte", "u61001", 3, <<>>,
                         Str("6.10"), Str("Artes")),
                 Termino("6.10.02", "Artes visuales", "u61002", 3, <<>>,
                         Str("6.10"), Str("Artes")) >>,
              Str("6"), Str("Cultura")) >>,
         None, None) >>

\* The concatenation of the sequences of a sequence: list.extend in a loop.
RECURSIVE extend_all(_)
extend_all(listas) ==
    IF listas = <<>> THEN <<>> ELSE Head(listas) \o extend_all(Tail(listas))

extraer_terminos_nivel_2(raices) ==
    extend_all([i \in DOMAIN raices |-> raices[i].hijos])

extraer_terminos_nivel_3(raices) ==
    extend_all([i \in DOMAIN raices |->
                   extend_all([j \in DOMAIN raices[i].hijos |->
                                  raices[i].hijos[j].hijos])])

\* The labels of the level-3 terms of the thesaurus: self.tesauro_terminos.
tesauro_terminos == <<"Historia", "Arte", "Artes visuales">>

\* The length of the longest common prefix of a and b.
RECURSIVE prefijo_comun(_, _)
prefijo_comun(a, b) ==
    IF a = "" \/ b = "" \/ Ch(a, 1) # Ch(b, 1) THEN 0
    ELSE 1 + prefijo_comun(Drop(a, 1), Drop(b, 1))

\* The cosine similarity, in hundredths, of the embeddings of a normalised text
\* and of a label.  The embedding model is an external collaborator: it is
\* taken to be a fixed function of the two texts: the one a run of the matcher
\* has drawn (coseno), and otherwise one that gives 100 to equal texts.
similitud(texto, etiqueta) ==
    IF texto \in DOMAIN coseno THEN coseno[texto][etiqueta]
    ELSE IF texto = etiqueta THEN 100
    ELSE LET n == prefijo_comun(texto, etiqueta)
             m == IF Len(texto) > Len(etiqueta) THEN Len(texto) ELSE Len(etiqueta)
         IN  (90 * n) \div m

\* str(n) of a natural number.
RECURSIVE to_str(_)
to_str(n) ==
    IF n < 10 THEN Ch("0123456789", n + 1)
    ELSE to_str(n \div 10) \o Ch("0123456789", (n % 10) + 1)

\* A float that is a number of hundredths, such as a score.
Float(hundredths) == [t |-> "float", v |-> to_str(hundredths)]

\* similitudes[i]: one row of cosine_similarity(embeddings_temas, tesauro_embeddings).
similitudes(texto) ==
    [j \in DOMAIN tesauro_terminos |-> similitud(texto, tesauro_terminos[j])]

\* numpy argmax: the first index of the greatest value.
argmax(fila) ==
    CHOOSE j \in DOMAIN fila :
        /\ \A k \in DOMAIN fila : fila[k] <= fila[j]
        /\ \A k \in 1..(j - 1) : fila[k] < fila[j]

(***************************************************************************)
(* Tables: a pandas DataFrame is its column names, in order, and its rows, *)
(* each with its index label and its cells.                                *)
(***************************************************************************)
DataFrame(columns, filas) == [t |-> "DataFrame", columns |-> columns, filas |-> filas]
\* pd.DataFrame()
DataFrameVacio == DataFrame(<<>>, <<>>)

en_columnas(df, c) == \E i \in DOMAIN df.columns : df.columns[i] = c
len(df) == Len(df.filas)
\* DataFrame.empty: an axis of length 0.
empty(df) == Len(df.filas) = 0 \/ Len(df.columns) = 0
indices(df) == {df.filas[i].index : i \in DOMAIN df.filas}

\* df[c] = serie, serie aligned with the rows: a column that exists is
\* overwritten, a new one is appended.
asignar_columna(df, c, serie) ==
    DataFrame(IF en_columnas(df, c) THEN df.columns ELSE Append(df.columns, c),
              [i \in DOMAIN df.filas |->
                  [index |-> df.filas[i].index,
                   celdas |-> [x \in DOMAIN df.filas[i].celdas \cup {c} |->
                                  IF x = c THEN serie[i] ELSE df.filas[i].celdas[x]]]])

\* df[mascara], the rows kept in order with their index labels.
filtrar_filas(df, Mascara(_)) == DataFrame(df.columns, SelectSeq(df.filas, Mascara))

\* df[c].apply(f)
apply(df, c, f(_)) == [i \in DOMAIN df.filas |-> f(df.filas[i].celdas[c])]

\* What to_csv(path, index=False) writes: the columns and the cells of the
\* rows, without the index.
to_csv(df) ==
    [columns |-> df.columns, filas |-> [i \in DOMAIN df.filas |-> df.filas[i].celdas]]

(***************************************************************************)
(* BibliotecaDataProcessor: the state of one processor and of its files.   *)
(***************************************************************************)
VARIABLES
    ruta_archivo,       \* self.ruta_archivo: the name of the input file
    contenido,          \* the table the input file holds, None if it is missing
    datos,              \* self.datos
    datos_descartados,  \* self.datos_descartados
    escritos,           \* the files the last call wrote: name |-> content
    ultima,             \* the last call: the method and how it ended
    retorno,            \* what the last call returned, None if it raised
    hechas,             \* the pipeline stages that have completed (returned)
    campo,              \* the normaliser under test (normaliser runs only)
    valor,              \* its input
    salida,             \* its result
    salida2             \* the result of normalising the result again

vars == <<ruta_archivo, contenido, datos, datos_descartados, escritos, ultima,
          retorno, hechas, campo, valor, salida, salida2,
          linea, terminos, coseno, llamada, resultado>>
vars_normalizador == <<campo, valor, salida, salida2>>
vars_procesador == <<ruta_archivo, contenido, datos, datos_descartados, escritos,
                     ultima, retorno, hechas>>

columnas_esperadas ==
    [bibliotecas |-> <<"Biblioteca_1", "Biblioteca_2", "Biblioteca_3", "Biblioteca_4",
                       "Biblioteca_5", "Biblioteca_6", "Biblioteca_7">>,
     lugar |-> "Lugar de publicación",
     fecha |-> "Fecha de publicación",
     temas |-> "Tema principal",
     autor |-> "Nombre principal (autor)",
     titulo |-> "Título principal",
     dewey |-> "Número de clasificación Dewey",
     periodo |-> "Periodo cronológico",
     editorial |-> "Editorial"]

\* The body of obtener_columnas_disponibles on a loaded table: the library
\* columns that are present, and each other expected column or None.
columnas_disponibles(df) ==
    LET una(c) == IF en_columnas(df, c) THEN Str(c) ELSE None
    IN  [bibliotecas |-> SelectSeq(columnas_esperadas.bibliotecas,
                                   LAMBDA c : en_columnas(df, c)),
         lugar |-> una(columnas_esperadas.lugar),
         fecha |-> una(columnas_esperadas.fecha),
         temas |-> una(columnas_esperadas.temas),
         autor |-> una(columnas_esperadas.autor),
         titulo |-> una(columnas_esperadas.titulo),
         dewey |-> una(columnas_esperadas.dewey),
         periodo |-> una(columnas_esperadas.periodo),
         editorial |-> una(columnas_esperadas.editorial)]

\* "if self.datos is None: raise ValueError(...)": the guard every method starts with.
sin_cargar(df) == df.t = "NoneType"

\* The mask with all(axis=1) in the place of any(axis=1).
mascara_biblioteca_todas(fila, columnas_biblioteca) ==
    \A i \in DOMAIN columnas_biblioteca : ~isna(fila.celdas[columnas_biblioteca[i]])

\* mascara_biblioteca: self.datos[columnas_biblioteca].notnull().any(axis=1)
mascara_biblioteca(fila, columnas_biblioteca) ==
    \E i \in DOMAIN columnas_biblioteca : ~isna(fila.celdas[columnas_biblioteca[i]])

\* The two tables filtrar_registros_con_biblioteca splits a loaded table into.
registros_validos(df) ==
    LET cb == columnas_disponibles(df).bibliotecas
    IN  filtrar_filas(df, LAMBDA f : mascara_biblioteca(f, cb))
\* The discarded rows taken with the mask and not with its negation.
registros_descartados_sin_negar(df) ==
    LET cb == columnas_disponibles(df).bibliotecas
    IN  filtrar_filas(df, LAMBDA f : mascara_biblioteca(f, cb))

registros_descartados(df) ==
    LET cb == columnas_disponibles(df).bibliotecas
    IN  filtrar_filas(df, LAMBDA f : ~mascara_biblioteca(f, cb))

DatasetPartition(validos, descartados) ==
    [registros_validos |-> validos, registros_descartados |-> descartados]

(***************************************************************************)
(* transformar_datos, one step per expected column.  A step works on       *)
(* est = [df, exc]: the table as it stands and the exception raised so     *)
(* far (None if none).  self.datos is changed in place, step by step.      *)
(***************************************************************************)
\* self.datos[col + sufijo] = self.datos[col].apply(f)
paso(est, col, sufijo, f(_)) ==
    IF raised(est.exc) \/ col = None THEN est
    ELSE LET serie == apply(est.df, col.v, f)
             exc == primera_excepcion(serie)
         IN  IF raised(exc) THEN [df |-> est.df, exc |-> exc]
             ELSE [df |-> asignar_columna(est.df, col.v \o sufijo, serie), exc |-> None]

\* pares = self.datos[col].apply(f); self.datos[col + sufijo1] = pares.str[0];
\* self.datos[col + sufijo2] = pares.str[1]
paso_par(est, col, sufijo1, sufijo2, f(_)) ==
    IF raised(est.exc) \/ col = None THEN est
    ELSE LET pares == apply(est.df, col.v, f)
             df1 == asignar_columna(est.df, col.v \o sufijo1,
                                    [i \in DOMAIN pares |-> Str(pares[i][1])])
             df2 == asignar_columna(df1, col.v \o sufijo2,
                                    [i \in DOMAIN pares |-> Str(pares[i][2])])
         IN  [df |-> df2, exc |-> None]

\* df[col].dropna(): the rows whose cell is not null, in order, with their
\* index labels.
dropna(df, col) == SelectSeq(df.filas, LAMBDA fila : ~isna(fila.celdas[col]))

\* The variant that writes the k-th value into the k-th row of the table.
loc_asignar_por_posicion(df, c, serie) ==
    DataFrame(IF en_columnas(df, c) THEN df.columns ELSE Append(df.columns, c),
              [i \in DOMAIN df.filas |->
                  [index |-> df.filas[i].index,
                   celdas |-> [x \in DOMAIN df.filas[i].celdas \cup {c} |->
                       IF x # c THEN df.filas[i].celdas[x]
                       ELSE IF i \in DOMAIN serie THEN serie[i].valor
                       ELSE IF c \in DOMAIN df.filas[i].celdas
                       THEN df.filas[i].celdas[c]
                       ELSE NaN]]])
\* df.loc[indice, c] = valores, serie the pairs of an index label and its
\* value: the row of each label gets its value; in a new column the other rows
\* get NaN, in an old one they keep what they had.
loc_asignar(df, c, serie) ==
    DataFrame(IF en_columnas(df, c) THEN df.columns ELSE Append(df.columns, c),
              [i \in DOMAIN df.filas |->
                  [index |-> df.filas[i].index,
                   celdas |-> [x \in DOMAIN df.filas[i].celdas \cup {c} |->
                       IF x # c THEN df.filas[i].celdas[x]
                       ELSE IF \E k \in DOMAIN serie : serie[k].index = df.filas[i].index
                       THEN serie[CHOOSE k \in DOMAIN serie :
                                     serie[k].index = df.filas[i].index].valor
                       ELSE IF c \in DOMAIN df.filas[i].celdas
                       THEN df.filas[i].celdas[c]
                       ELSE NaN]]])

\* ProcesadorMateriasEmbeddings.procesar_dataframe: the subjects that are not
\* null are encoded together; the best label and the score of each are written
\* at the index label of its row.
procesar_dataframe(df) ==
    LET temas_validos == dropna(df, columnas_esperadas.temas)
        temas_normalizados ==
            [k \in DOMAIN temas_validos |->
                normalizar_texto(temas_validos[k].celdas[columnas_esperadas.temas].v)]
        matriz == [k \in DOMAIN temas_validos |-> similitudes(temas_normalizados[k])]
        mejores_coincidencias ==
            [k \in DOMAIN temas_validos |->
                [index |-> temas_validos[k].index,
                 valor |-> Str(tesauro_terminos[argmax(matriz[k])])]]
        puntuaciones_mejores_coincidencias ==
            [k \in DOMAIN temas_validos |->
                [index |-> temas_validos[k].index,
                 valor |-> Float(matriz[k][argmax(matriz[k])])]]
    IN  loc_asignar(loc_asignar(df, "tema_general", mejores_coincidencias),
                    "score_tema_general", puntuaciones_mejores_coincidencias)

(***************************************************************************)
(* The processor that matches one subject at a time.                       *)
(***************************************************************************)
\* [materia.strip() for materia in texto.split(';')]
separar_materias(texto) == strip_each(split(texto, ";"))

\* cosine_similarity([termino_embedding], self.tesauro_embeddings)[0]
similitudes_de(texto) ==
    [j \in DOMAIN terminos |-> similitud(texto, terminos[j].etiqueta)]

\* The variant that accepts a match only above the threshold.
encontrar_termino_similar_estricto(termino, umbral) ==
    LET fila == similitudes_de(normalizar_texto(termino))
        indice_max == argmax(fila)
        max_similitud == fila[indice_max]
    IN  IF max_similitud > umbral
        THEN Tuple(<<terminos[indice_max], Float(max_similitud)>>)
        ELSE Tuple(<<Termino("", termino, "", 0, <<>>, None, None),
                     Float(max_similitud)>>)
encontrar_termino_similar(termino, umbral) ==
    LET fila == similitudes_de(normalizar_texto(termino))
        indice_max == argmax(fila)
        max_similitud == fila[indice_max]
    IN  IF max_similitud >= umbral
        THEN Tuple(<<terminos[indice_max], Float(max_similitud)>>)
        ELSE Tuple(<<Termino("", termino, "", 0, <<>>, None, None),
                     Float(max_similitud)>>)

\* The variant that keeps the first of the results with the lowest score.
max_score_el_menor(resultados) ==
    resultados[CHOOSE i \in DOMAIN resultados :
                  /\ \A k \in DOMAIN resultados :
                         to_int(resultados[k].score.v) >= to_int(resultados[i].score.v)
                  /\ \A k \in 1..(i - 1) :
                         to_int(resultados[k].score.v) > to_int(resultados[i].score.v)]
\* max(resultados, key=lambda x: x['score']): the first of the greatest.
max_score(resultados) ==
    resultados[CHOOSE i \in DOMAIN resultados :
                  /\ \A k \in DOMAIN resultados :
                         to_int(resultados[k].score.v) <= to_int(resultados[i].score.v)
                  /\ \A k \in 1..(i - 1) :
                         to_int(resultados[k].score.v) < to_int(resultados[i].score.v)]

\* The variant whose max keeps the last of the greatest.
procesar_linea_ultimo(texto, umbral) ==
    LET materias == separar_materias(texto)
        resultados == [i \in DOMAIN materias |->
            LET par == encontrar_termino_similar(materias[i], umbral).v
            IN  [termino_original |-> materias[i],
                 termino_sugerido |-> par[1],
                 score |-> par[2]]]
    IN  resultados[CHOOSE i \in DOMAIN resultados :
                      /\ \A k \in DOMAIN resultados :
                             to_int(resultados[k].score.v) <= to_int(resultados[i].score.v)
                      /\ \A k \in (i + 1)..Len(resultados) :
                             to_int(resultados[k].score.v) < to_int(resultados[i].score.v)]
procesar_linea(texto, umbral) ==
    LET materias == separar_materias(texto)
        resultados == [i \in DOMAIN materias |->
            LET par == encontrar_termino_similar(materias[i], umbral).v
            IN  [termino_original |-> materias[i],
                 termino_sugerido |-> par[1],
                 score |-> par[2]]]
    IN  max_score(resultados)

\* umbral: float = 0.3, the default of procesar_linea, in hundredths.
umbral_procesar_linea == 30

\* procesar_dataframe of the one-at-a-time processor: the label of the best
\* result of each row whose subject is not null, None for the others.
procesar_dataframe_por_lineas(df) ==
    LET etiqueta_de(x) ==
            IF ~isna(x)
            THEN Str(procesar_linea(x.v, umbral_procesar_linea).termino_sugerido.etiqueta)
            ELSE None
    IN  asignar_columna(df, "tema_general",
                        apply(df, columnas_esperadas.temas, etiqueta_de))

\* self.datos = self._modelar_topicos(col): the thesaurus file is read and the
\* embedding model loaded, which fails if either is not available.  With no
\* subject to encode, modelo.encode([]) and cosine_similarity are called on
\* empty arrays: the libraries decide whether that raises (codifica_vacio).
paso_temas(est, col, tesauro_disponible, codifica_vacio) ==
    IF raised(est.exc) \/ col = None THEN est
    ELSE IF ~tesauro_disponible THEN [df |-> est.df, exc |-> Raise("FileNotFoundError")]
    ELSE IF ~codifica_vacio /\ \A i \in DOMAIN est.df.filas :
                                  isna(est.df.filas[i].celdas[col.v])
    THEN [df |-> est.df, exc |-> Raise("ValueError")]
    ELSE [df |-> procesar_dataframe(est.df), exc |-> None]

\* The steps of transformar_datos on a loaded table, in the order of the source.
transformar(df, tesauro_disponible, codifica_vacio) ==
    LET cd == columnas_disponibles(df)
        e0 == [df |-> df, exc |-> None]
        e1 == paso(e0, cd.autor, " normalizado", normalizar_nombre_autor)
        e2 == paso(e1, cd.titulo, " normalizado", normalizar_titulo)
        e3 == paso_par(e2, cd.lugar, " ciudad 1 normalizado", " ciudad 2 normalizado",
                       normalizar_lugar_publicacion)
        e4 == paso(e3, cd.fecha, " normalizado", normalizar_fecha_publicacion)
        e5 == paso(e4, cd.dewey, " normalizado", normalizar_numero_clasificacion_dewey)
        e6 == paso(e5, cd.periodo, " normalizado", normalizar_periodo)
        e7 == paso_par(e6, cd.editorial, " 1 normalizado", " 2 normalizado",
                       normalizar_editorial)
    IN  paso_temas(e7, cd.temas, tesauro_disponible, codifica_vacio)

(***************************************************************************)
(* The input files.                                                        *)
(***************************************************************************)
MaxFilas == 2

\* The values a cell of each column of a generated file may hold.  read_csv
\* gives nan for an empty cell and a str for a cell of a column that is not
\* all numbers.
ValoresDe(c) ==
    CASE c = "Biblioteca_1" -> {NaN, Str("L1")}
      [] c = "Biblioteca_2" -> {NaN, Str("L2")}
      [] c = "Nombre principal (autor)" -> {Str("GIL, ANA,")}
      [] c = "Número de clasificación Dewey" -> {NaN, Str("709.04 C")}
      [] c = "Tema principal" -> {NaN, Str("ARTE (x)")}

\* The column lists of the generated files: with no, one or two library
\* columns, with and without the columns transformar_datos works on.
ColumnasDeArchivo ==
    { <<"Nombre principal (autor)">>,
      <<"Biblioteca_2">>,
      <<"Biblioteca_1", "Biblioteca_2">>,
      <<"Biblioteca_1", "Tema principal">>,
      <<"Biblioteca_1", "Nombre principal (autor)", "Número de clasificación Dewey">>,
      <<"Nombre principal (autor)", "Número de clasificación Dewey", "Tema principal">> }

\* A table as read_csv returns it: the rows are labelled 0, 1, ...
tabla_leida(columns, filas_celdas) ==
    DataFrame(columns, [i \in DOMAIN filas_celdas |->
                           [index |-> i - 1, celdas |-> filas_celdas[i]]])

TablasDe(columns) ==
    LET nombres == {columns[i] : i \in DOMAIN columns}
        Celdas == {f \in [nombres -> UNION {ValoresDe(c) : c \in nombres}] :
                       \A c \in nombres : f[c] \in ValoresDe(c)}
    IN  {tabla_leida(columns, fs) : fs \in UNION {[1..n -> Celdas] : n \in 0..MaxFilas}}

Tablas == UNION {TablasDe(columns) : columns \in ColumnasDeArchivo}

\* A catalogue with every expected column.
TablaCompleta ==
    tabla_leida(
        <<"Biblioteca_1", "Lugar de publicación", "Fecha de publicación",
          "Tema principal", "Nombre principal (autor)", "Título principal",
          "Número de clasificación Dewey", "Periodo cronológico", "Editorial">>,
        << [x \in {"Biblioteca_1", "Lugar de publicación", "Fecha de publicación",
                   "Tema principal", "Nombre principal (autor)", "Título principal",
                   "Número de clasificación Dewey", "Periodo cronológico",
                   "Editorial"} |->
               CASE x = "Biblioteca_1" -> Str("Lib1")
                 [] x = "Lugar de publicación" -> Str("Barcelona,Bogota")
                 [] x = "Fecha de publicación" -> Str("2019-2020")
                 [] x = "Tema principal" -> Str("Arte")
                 [] x = "Nombre principal (autor)" -> Str("von Goethe,   Johann Wolfgang.")
                 [] x = "Título principal" -> Str(" Historia del arte moderno /: , ")
                 [] x = "Número de clasificación Dewey" -> Str("709.04 C")
                 [] x = "Periodo cronológico" -> Str("Siglos XX-XXI")
                 [] x = "Editorial" -> Str("Planeta (Colombia), Norma")] >>)

\* A table that already holds a column with the name of an output column.
TablaConSalida ==
    tabla_leida(
        <<"Biblioteca_1", "Título principal", "Título principal normalizado">>,
        << [x \in {"Biblioteca_1", "Título principal", "Título principal normalizado"} |->
               CASE x = "Biblioteca_1" -> Str("Lib1")
                 [] x = "Título principal" -> Str("El príncipe /")
                 [] x = "Título principal normalizado" -> Str("EL PRINCIPE")] >>)

Archivos == Tablas \cup {TablaCompleta, TablaConSalida}

endswith(s, p) == Len(s) >= Len(p) /\ SubSeq(s, Len(s) - Len(p) + 1, Len(s)) = p

\* Path.stem: the name without its last suffix.
RECURSIVE stem(_)
stem(nombre) ==
    IF ~contains(nombre, ".") THEN nombre
    ELSE IF Ch(nombre, Len(nombre)) = "." THEN Take(nombre, Len(nombre) - 1)
    ELSE stem(Take(nombre, Len(nombre) - 1))

\* df.to_csv(path, index=False) added to the files written so far in the call.
escribir(dir, nombre, df) ==
    [x \in DOMAIN dir \cup {nombre} |-> IF x = nombre THEN to_csv(df) ELSE dir[x]]

(***************************************************************************)
(* The methods.  Each call records how it ended in ultima and retorno.     *)
(***************************************************************************)
NadaEscrito == [x \in {} |-> None]
Etapas == {"cargar_datos", "filtrar_registros_con_biblioteca", "transformar_datos",
           "guardar_resultados"}

Termina(op, res, ret) ==
    /\ ultima' = [op |-> op, res |-> res]
    /\ retorno' = ret
    /\ hechas' = IF res = "ok" /\ op \in Etapas THEN hechas \cup {op} ELSE hechas

\* cargar_datos reading the file before it looks at the extension.
Cargar_datos_lee_antes ==
    /\ datos' = IF sin_cargar(contenido) THEN datos ELSE contenido
    /\ IF sin_cargar(contenido)
       THEN Termina("cargar_datos", "FileNotFoundError", None)
       ELSE IF ~(\/ endswith(ruta_archivo, ".csv")
                 \/ endswith(ruta_archivo, ".xlsx")
                 \/ endswith(ruta_archivo, ".xls"))
       THEN Termina("cargar_datos", "ValueError", None)
       ELSE Termina("cargar_datos", "ok", contenido)
    /\ escritos' = NadaEscrito
    /\ UNCHANGED <<ruta_archivo, contenido, datos_descartados>>
    /\ UNCHANGED vars_normalizador
    /\ UNCHANGED vars_materias

Cargar_datos ==
    /\ IF ~(\/ endswith(ruta_archivo, ".csv")
            \/ endswith(ruta_archivo, ".xlsx")
            \/ endswith(ruta_archivo, ".xls"))
       THEN /\ Termina("cargar_datos", "ValueError", None)
            /\ UNCHANGED datos
       ELSE IF sin_cargar(contenido)
       THEN /\ Termina("cargar_datos", "FileNotFoundError", None)
            /\ UNCHANGED datos
       ELSE /\ datos' = contenido
            /\ Termina("cargar_datos", "ok", contenido)
    /\ escritos' = NadaEscrito
    /\ UNCHANGED <<ruta_archivo, contenido, datos_descartados>>
    /\ UNCHANGED vars_normalizador
    /\ UNCHANGED vars_materias

Obtener_columnas_disponibles ==
    /\ IF sin_cargar(datos)
       THEN Termina("obtener_columnas_disponibles", "ValueError", None)
       ELSE Termina("obtener_columnas_disponibles", "ok", columnas_disponibles(datos))
    /\ escritos' = NadaEscrito
    /\ UNCHANGED <<ruta_archivo, contenido, datos, datos_descartados>>
    /\ UNCHANGED vars_normalizador
    /\ UNCHANGED vars_materias

\* filtrar_registros_con_biblioteca resetting the discarded rows before its guard.
Filtrar_registros_reinicia_descartados ==
    /\ IF sin_cargar(datos)
       THEN /\ Termina("filtrar_registros_con_biblioteca", "ValueError", None)
            /\ datos_descartados' = DataFrameVacio
            /\ UNCHANGED datos
       ELSE IF columnas_disponibles(datos).bibliotecas = <<>>
       THEN /\ Termina("filtrar_registros_con_biblioteca", "ok",
                       DatasetPartition(datos, DataFrameVacio))
            /\ UNCHANGED <<datos, datos_descartados>>
       ELSE /\ datos' = registros_validos(datos)
            /\ datos_descartados' = registros_descartados(datos)
            /\ Termina("filtrar_registros_con_biblioteca", "ok",
                       DatasetPartition(registros_validos(datos),
                                        registros_descartados(datos)))
    /\ escritos' = NadaEscrito
    /\ UNCHANGED <<ruta_archivo, contenido>>
    /\ UNCHANGED vars_normalizador
    /\ UNCHANGED vars_materias

Filtrar_registros_con_biblioteca ==
    /\ IF sin_cargar(datos)
       THEN /\ Termina("filtrar_registros_con_biblioteca", "ValueError", None)
            /\ UNCHANGED <<datos, datos_descartados>>
       ELSE IF columnas_disponibles(datos).bibliotecas = <<>>
       THEN /\ Termina("filtrar_registros_con_biblioteca", "ok",
                       DatasetPartition(datos, DataFrameVacio))
            /\ UNCHANGED <<datos, datos_descartados>>
       ELSE /\ datos' = registros_validos(datos)
            /\ datos_descartados' = registros_descartados(datos)
            /\ Termina("filtrar_registros_con_biblioteca", "ok",
                       DatasetPartition(registros_validos(datos),
                                        registros_descartados(datos)))
    /\ escritos' = NadaEscrito
    /\ UNCHANGED <<ruta_archivo, contenido>>
    /\ UNCHANGED vars_normalizador
    /\ UNCHANGED vars_materias

Transformar_datos ==
    /\ \E tesauro_disponible \in BOOLEAN, codifica_vacio \in BOOLEAN :
          IF sin_cargar(datos)
          THEN /\ Termina("transformar_datos", "ValueError", None)
               /\ UNCHANGED datos
          ELSE LET est == transformar(datos, tesauro_disponible, codifica_vacio)
               IN  /\ datos' = est.df
                   /\ IF raised(est.exc)
                      THEN Termina("transformar_datos", est.exc.v, None)
                      ELSE Termina("transformar_datos", "ok", est.df)
    /\ escritos' = NadaEscrito
    /\ UNCHANGED <<ruta_archivo, contenido, datos_descartados>>
    /\ UNCHANGED vars_normalizador
    /\ UNCHANGED vars_materias

\* guardar_resultados writing the discarded rows whenever there is such a table,
\* an empty one too.
Guardar_resultados_sin_mirar_vacio ==
    /\ IF sin_cargar(datos)
       THEN /\ Termina("guardar_resultados", "ValueError", None)
            /\ escritos' = NadaEscrito
       ELSE LET nombre == stem(ruta_archivo)
                d1 == escribir(NadaEscrito, nombre \o "_procesado.csv", datos)
            IN  /\ escritos' =
                       IF ~sin_cargar(datos_descartados)
                       THEN escribir(d1, nombre \o "_descartados.csv", datos_descartados)
                       ELSE d1
                /\ Termina("guardar_resultados", "ok", None)
    /\ UNCHANGED <<ruta_archivo, contenido, datos, datos_descartados>>
    /\ UNCHANGED vars_normalizador
    /\ UNCHANGED vars_materias
Guardar_resultados ==
    /\ IF sin_cargar(datos)
       THEN /\ Termina("guardar_resultados", "ValueError", None)
            /\ escritos' = NadaEscrito
       ELSE LET nombre == stem(ruta_archivo)
                d1 == escribir(NadaEscrito, nombre \o "_procesado.csv", datos)
            IN  /\ escritos' =
                       IF ~sin_cargar(datos_descartados) /\ ~empty(datos_descartados)
                       THEN escribir(d1, nombre \o "_descartados.csv", datos_descartados)
                       ELSE d1
                /\ Termina("guardar_resultados", "ok", None)
    /\ UNCHANGED <<ruta_archivo, contenido, datos, datos_descartados>>
    /\ UNCHANGED vars_normalizador
    /\ UNCHANGED vars_materias

\* BibliotecaDataProcessor(ruta_archivo): nothing loaded, nothing written.
Init ==
    /\ \/ ruta_archivo = "catalogo.csv" /\ contenido \in Archivos
       \/ ruta_archivo = "catalogo.csv" /\ contenido = None
       \/ ruta_archivo = "catalogo.txt" /\ contenido = TablaCompleta
    /\ datos = None
    /\ datos_descartados = None
    /\ escritos = NadaEscrito
    /\ ultima = [op |-> "__init__", res |-> "ok"]
    /\ retorno = None
    /\ hechas = {}
    /\ campo = ""
    /\ valor = None
    /\ salida = Pendiente
    /\ salida2 = Pendiente
    /\ linea = ""
    /\ terminos = <<>>
    /\ coseno = <<>>
    /\ llamada = [op |-> "__init__"]
    /\ resultado = Pendiente

Next ==
    \/ Cargar_datos
    \/ Obtener_columnas_disponibles
    \/ Filtrar_registros_con_biblioteca
    \/ Transformar_datos
    \/ Guardar_resultados

Spec == Init /\ [][Next]_vars

(***************************************************************************)
(* The normalisers on their own: one input, normalised once, and for the   *)
(* place, author and title normalisers normalised a second time.           *)
(***************************************************************************)
MaxPiezas == 3

\* The strings made of at most n of the pieces.
RECURSIVE Palabras(_, _)
Palabras(piezas, n) ==
    IF n = 0 THEN {""}
    ELSE LET cortas == Palabras(piezas, n - 1)
         IN  cortas \cup {w \o x : w \in cortas, x \in piezas}

Campos == {"lugar", "fecha", "autor", "titulo", "dewey", "periodo", "editorial"}

PiezasDe(c) ==
    CASE c = "lugar" -> {"México", "Bogota", "Ciudad de ", "a", ",", ";", "(", ")",
                         " ", "1", "#", "Lima,"}
      [] c = "fecha" -> {"2019", "2020", "12", "c", ".", " ", "-", "a", "?", "circa"}
      [] c = "autor" -> {"a", "B", "dr. ", "De ", ",", ";", ".", " "}
      [] c = "titulo" -> {"a", "B", "1", ";", "/", ",", ":", ".", " ", "#"}
      [] c = "dewey" -> {"R", "0", "7", "12", ".", " ", "x"}
      [] c = "periodo" -> {"siglo", "s", " ", "-", "xx", "xxi", "XIX", "i", "v",
                           "2013", "0000", "a"}
      [] c = "editorial" -> {"a", "B", "ab", " ", ",", ";", ".", "(", ")", "#"}

\* The values of the tests of the repository and of the specification.
EjemplosDe(c) ==
    CASE c = "lugar" -> {"Barcelona,Bogotá", "Rubi (Barcelona)", "León ( España)",
                         "New York", "##"}
      [] c = "fecha" -> {"2019-2020", "c.2018", "©2021", "sin fecha"}
      [] c = "autor" -> {"Dr. Cardona Marín, Guillermo",
                         "Süskind, Patrick,; Gambolini, Gerardo",
                         "von Goethe,   Johann Wolfgang."}
      [] c = "titulo" -> {" Historia del arte moderno /: , ",
                          "00;Fichero de juegos al aire libre",
                          "C++ Programming Language"}
      [] c = "dewey" -> {"123.456", "70.904.062", " 650.213 ", "AB123CD456", "523",
                         "5", "88", "Co 867.6"}
      [] c = "periodo" -> {"Siglos XX-XXI", "No es un siglo", "Siglo xix-xx"}
      [] c = "editorial" -> {"Planeta (Colombia), Norma", "##"}

EntradasDe(c) ==
    {None, NaN} \cup {Str(w) : w \in Palabras(PiezasDe(c), MaxPiezas) \cup EjemplosDe(c)}

Normalizar_lugar_publicacion ==
    /\ campo = "lugar" /\ salida.t = "pendiente"
    /\ salida' = Tuple(normalizar_lugar_publicacion(valor))
    /\ UNCHANGED <<campo, valor, salida2>>
    /\ UNCHANGED vars_procesador
    /\ UNCHANGED vars_materias

\* Each city of the result normalised again.
Renormalizar_lugar_publicacion ==
    /\ campo = "lugar" /\ salida.t = "tuple" /\ salida2.t = "pendiente"
    /\ salida2' = Tuple(<<normalizar_lugar_publicacion(Str(salida.v[1])),
                          normalizar_lugar_publicacion(Str(salida.v[2]))>>)
    /\ UNCHANGED <<campo, valor, salida>>
    /\ UNCHANGED vars_procesador
    /\ UNCHANGED vars_materias

Normalizar_fecha_publicacion ==
    /\ campo = "fecha" /\ salida.t = "pendiente"
    /\ salida' = normalizar_fecha_publicacion(valor)
    /\ UNCHANGED <<campo, valor, salida2>>
    /\ UNCHANGED vars_procesador
    /\ UNCHANGED vars_materias

Normalizar_nombre_autor ==
    /\ campo = "autor" /\ salida.t = "pendiente"
    /\ salida' = normalizar_nombre_autor(valor)
    /\ UNCHANGED <<campo, valor, salida2>>
    /\ UNCHANGED vars_procesador
    /\ UNCHANGED vars_materias

Renormalizar_nombre_autor ==
    /\ campo = "autor" /\ salida.t = "str" /\ salida2.t = "pendiente"
    /\ salida2' = normalizar_nombre_autor(salida)
    /\ UNCHANGED <<campo, valor, salida>>
    /\ UNCHANGED vars_procesador
    /\ UNCHANGED vars_materias

Normalizar_titulo ==
    /\ campo = "titulo" /\ salida.t = "pendiente"
    /\ salida' = normalizar_titulo(valor)
    /\ UNCHANGED <<campo, valor, salida2>>
    /\ UNCHANGED vars_procesador
    /\ UNCHANGED vars_materias

Renormalizar_titulo ==
    /\ campo = "titulo" /\ salida.t = "str" /\ salida2.t = "pendiente"
    /\ salida2' = normalizar_titulo(salida)
    /\ UNCHANGED <<campo, valor, salida>>
    /\ UNCHANGED vars_procesador
    /\ UNCHANGED vars_materias

Normalizar_numero_clasificacion_dewey ==
    /\ campo = "dewey" /\ salida.t = "pendiente"
    /\ salida' = normalizar_numero_clasificacion_dewey(valor)
    /\ UNCHANGED <<campo, valor, salida2>>
    /\ UNCHANGED vars_procesador
    /\ UNCHANGED vars_materias

Normalizar_periodo ==
    /\ campo = "periodo" /\ salida.t = "pendiente"
    /\ salida' = normalizar_periodo(valor)
    /\ UNCHANGED <<campo, valor, salida2>>
    /\ UNCHANGED vars_procesador
    /\ UNCHANGED vars_materias

Normalizar_editorial ==
    /\ campo = "editorial" /\ salida.t = "pendiente"
    /\ salida' = Tuple(normalizar_editorial(valor))
    /\ UNCHANGED <<campo, valor, salida2>>
    /\ UNCHANGED vars_procesador
    /\ UNCHANGED vars_materias

\* processor = BibliotecaDataProcessor(""), as in the tests, and one input.
InitNormalizador ==
    /\ ruta_archivo = ""
    /\ contenido = None
    /\ datos = None
    /\ datos_descartados = None
    /\ escritos = NadaEscrito
    /\ ultima = [op |-> "__init__", res |-> "ok"]
    /\ retorno = None
    /\ hechas = {}
    /\ campo \in Campos
    /\ valor \in EntradasDe(campo)
    /\ salida = Pendiente
    /\ salida2 = Pendiente
    /\ linea = ""
    /\ terminos = <<>>
    /\ coseno = <<>>
    /\ llamada = [op |-> "__init__"]
    /\ resultado = Pendiente

NextNormalizador ==
    \/ Normalizar_lugar_publicacion
    \/ Renormalizar_lugar_publicacion
    \/ Normalizar_fecha_publicacion
    \/ Normalizar_nombre_autor
    \/ Renormalizar_nombre_autor
    \/ Normalizar_titulo
    \/ Renormalizar_titulo
    \/ Normalizar_numero_clasificacion_dewey
    \/ Normalizar_periodo
    \/ Normalizar_editorial

SpecNormalizador == InitNormalizador /\ [][NextNormalizador]_vars

(***************************************************************************)
(* The subject matcher on its own: one subject value, one processor and    *)
(* one embedding model per behaviour, and the calls made on the processor. *)
(***************************************************************************)
MaxMaterias == 2

\* The subjects a value is made of, as they stand between the semicolons.
Frases == {"a", " Á (x)", "b "}

\* The subject values: one to MaxMaterias subjects joined with ';'.
Lineas ==
    {join(ms, ";") : ms \in UNION {[1..n -> Frases] : n \in 1..MaxMaterias}}

\* The texts the embedding model is given for a value: each subject and the
\* whole value, normalised.
Textos(l) ==
    {normalizar_texto(separar_materias(l)[i]) : i \in DOMAIN separar_materias(l)}
        \cup {normalizar_texto(l)}

Etiquetas(ts) == {ts[j].etiqueta : j \in DOMAIN ts}

\* Cosine similarities, in hundredths, and the thresholds of the calls.
Puntos == {20, 60}
Umbrales == {30, 60}

\* The table with the value in its first row and no subject in its second.
TablaDe(l) ==
    DataFrame(<<columnas_esperadas.temas>>,
              << [index |-> 0, celdas |-> [c \in {columnas_esperadas.temas} |-> Str(l)]],
                 [index |-> 1, celdas |-> [c \in {columnas_esperadas.temas} |-> NaN]] >>)

\* A table as a partition leaves it, its index not contiguous: a row without
\* subject, then the value, then the last subject of the value on its own.
TablaFiltradaDe(l) ==
    LET materias == separar_materias(l)
        fila(i, x) == [index |-> i, celdas |-> [c \in {columnas_esperadas.temas} |-> x]]
    IN  DataFrame(<<columnas_esperadas.temas>>,
                  << fila(1, NaN), fila(3, Str(l)),
                     fila(4, Str(materias[Len(materias)])) >>)

\* src/modelamiento_topicos.py matches against the level-2 terms,
\* src/src/modelamiento_topicos.py against the level-3 terms.
Encontrar_termino_similar ==
    /\ terminos = extraer_terminos_nivel_2(tesauro)
    /\ \E i \in DOMAIN separar_materias(linea), umbral \in Umbrales :
          LET termino == separar_materias(linea)[i]
          IN  /\ llamada' = [op |-> "encontrar_termino_similar",
                             termino |-> termino, umbral |-> umbral]
              /\ resultado' = encontrar_termino_similar(termino, umbral)
    /\ UNCHANGED <<linea, terminos, coseno>>
    /\ UNCHANGED vars_procesador
    /\ UNCHANGED vars_normalizador

Procesar_linea ==
    /\ terminos = extraer_terminos_nivel_2(tesauro)
    /\ \E umbral \in Umbrales :
          /\ llamada' = [op |-> "procesar_linea", linea |-> linea, umbral |-> umbral]
          /\ resultado' = procesar_linea(linea, umbral)
    /\ UNCHANGED <<linea, terminos, coseno>>
    /\ UNCHANGED vars_procesador
    /\ UNCHANGED vars_normalizador

Procesar_dataframe_por_lineas ==
    /\ terminos = extraer_terminos_nivel_2(tesauro)
    /\ llamada' = [op |-> "procesar_dataframe_por_lineas", df |-> TablaDe(linea)]
    /\ resultado' = procesar_dataframe_por_lineas(TablaDe(linea))
    /\ UNCHANGED <<linea, terminos, coseno>>
    /\ UNCHANGED vars_procesador
    /\ UNCHANGED vars_normalizador

Procesar_dataframe ==
    /\ terminos = extraer_terminos_nivel_3(tesauro)
    /\ \E df \in {TablaDe(linea), TablaFiltradaDe(linea)} :
          /\ llamada' = [op |-> "procesar_dataframe", df |-> df]
          /\ resultado' = procesar_dataframe(df)
    /\ UNCHANGED <<linea, terminos, coseno>>
    /\ UNCHANGED vars_procesador
    /\ UNCHANGED vars_normalizador

InitMaterias ==
    /\ ruta_archivo = ""
    /\ contenido = None
    /\ datos = None
    /\ datos_descartados = None
    /\ escritos = NadaEscrito
    /\ ultima = [op |-> "__init__", res |-> "ok"]
    /\ retorno = None
    /\ hechas = {}
    /\ campo = ""
    /\ valor = None
    /\ salida = Pendiente
    /\ salida2 = Pendiente
    /\ linea \in Lineas
    /\ terminos \in {extraer_terminos_nivel_2(tesauro), extraer_terminos_nivel_3(tesauro)}
    /\ coseno \in [Textos(linea) -> [Etiquetas(terminos) -> Puntos]]
    /\ llamada = [op |-> "__init__"]
    /\ resultado = Pendiente

NextMaterias ==
    \/ Encontrar_termino_similar
    \/ Procesar_linea
    \/ Procesar_dataframe_por_lineas
    \/ Procesar_dataframe

SpecMaterias == InitMaterias /\ [][NextMaterias]_vars

(***************************************************************************)
(* extraer_vocabulario: the thesaurus read from the markup of a tree view. *)
(* An element <li> is its anchor and its nested <li> elements; an anchor   *)
(* is its aria-level attribute (None if it has none), the text of its      *)
(* notation <span>, all of its text and its data-uri attribute.            *)
(***************************************************************************)
Ancla(aria_level, notacion, texto_completo, uri) ==
    [aria_level |-> aria_level, notacion |-> notacion,
     texto_completo |-> texto_completo, uri |-> uri]
Li(ancla, hijos) == [ancla |-> ancla, hijos |-> hijos]

\* str.find(sub) for a sub that s holds: the 0-based place of its first occurrence.
find(s, sub) ==
    CHOOSE i \in 0..(Len(s) - Len(sub)) :
        /\ SubSeq(s, i + 1, i + Len(sub)) = sub
        /\ \A j \in 0..(i - 1) : SubSeq(s, j + 1, j + Len(sub)) # sub

\* int(ancla.get("aria-level", 1))
nivel_de(ancla) == IF ancla.aria_level = None THEN 1 ELSE to_int(ancla.aria_level.v)

RECURSIVE extraer_termino(_, _, _)
extraer_termino(elemento_li, notacion_padre, etiqueta_padre) ==
    LET ancla == elemento_li.ancla
        notacion == IF ancla.aria_level = Str("3") THEN notacion_padre.v \o "extended"
                    ELSE strip(ancla.notacion)
        etiqueta == strip(un_espacio(
                        IF ancla.aria_level = Str("3") THEN ancla.texto_completo
                        ELSE Drop(ancla.texto_completo,
                                  find(ancla.texto_completo, notacion) + Len(notacion))))
    IN  Termino(notacion, etiqueta, ancla.uri, nivel_de(ancla),
                [k \in DOMAIN elemento_li.hijos |->
                    extraer_termino(elemento_li.hijos[k], Str(notacion), Str(etiqueta))],
                notacion_padre, etiqueta_padre)

\* The value a call returns when it returns a list.
Lista(v) == [t |-> "list", v |-> v]

\* contenido_html is the <li role="presentation" aria-level="1"> elements of
\* the document, in order.  With none of them the function raises ValueError;
\* an anchor of aria-level 3 in one of them makes None + "extended" raise.
extraer_vocabulario(contenido_html) ==
    IF contenido_html = <<>> THEN Raise("ValueError")
    ELSE IF \E r \in DOMAIN contenido_html :
                contenido_html[r].ancla.aria_level = Str("3")
    THEN Raise("TypeError")
    ELSE Lista([r \in DOMAIN contenido_html |->
                   extraer_termino(contenido_html[r], None, None)])

MaxHijos == 2

\* The aria-level an anchor may carry.
NivelesAria == {None, Str("1"), Str("2"), Str("3")}

\* The mark of an element with nothing nested in it.
SinHijo == [t |-> "sin", v |-> ""]

\* The k-th element nested in the root, with one element nested in it or none.
Rama(k, forma) ==
    Li(Ancla(forma[1], "6.0" \o to_str(k), "  6.0" \o to_str(k) \o " Artes  " \o to_str(k),
             "u60" \o to_str(k)),
       IF forma[2] = SinHijo THEN <<>>
       ELSE << Li(Ancla(forma[2], "", "Arte " \o to_str(k), "u60" \o to_str(k) \o "01"),
                  <<>>) >>)

\* The documents: one with no root element, and those with one root element
\* that holds up to MaxHijos elements.
Fuentes ==
    {<<>>} \cup
    { << Li(Ancla(nivel, "6", "6 Cultura", "u6"),
            [k \in DOMAIN formas |-> Rama(k, formas[k])]) >> :
        nivel \in NivelesAria,
        formas \in UNION {[1..n -> NivelesAria \X ({SinHijo} \cup NivelesAria)] :
                              n \in 0..MaxHijos} }

\* The thesaurus is read once, before anything else is called.
Extraer_vocabulario ==
    /\ llamada.op = "__init__"
    /\ \E contenido_html \in Fuentes :
          /\ llamada' = [op |-> "extraer_vocabulario", contenido_html |-> contenido_html]
          /\ resultado' = extraer_vocabulario(contenido_html)
    /\ UNCHANGED <<linea, terminos, coseno>>
    /\ UNCHANGED vars_procesador
    /\ UNCHANGED vars_normalizador

InitVocabulario ==
    /\ ruta_archivo = ""
    /\ contenido = None
    /\ datos = None
    /\ datos_descartados = None
    /\ escritos = NadaEscrito
    /\ ultima = [op |-> "__init__", res |-> "ok"]
    /\ retorno = None
    /\ hechas = {}
    /\ campo = ""
    /\ valor = None
    /\ salida = Pendiente
    /\ salida2 = Pendiente
    /\ linea = ""
    /\ terminos = <<>>
    /\ coseno = <<>>
    /\ llamada = [op |-> "__init__"]
    /\ resultado = Pendiente

NextVocabulario == Extraer_vocabulario

SpecVocabulario == InitVocabulario /\ [][NextVocabulario]_vars

(***************************************************************************)
(* The claims about the pipeline, checked under Spec.                      *)
(***************************************************************************)
FilasDe(df) == {df.filas[i] : i \in DOMAIN df.filas}

\* The row holds a value in one of Biblioteca_1 .. Biblioteca_7.
TieneBiblioteca(fila) ==
    \E k \in DOMAIN columnas_esperadas.bibliotecas :
        LET c == columnas_esperadas.bibliotecas[k]
        IN  c \in DOMAIN fila.celdas /\ ~isna(fila.celdas[c])

HayColumnaBiblioteca(df) ==
    \E k \in DOMAIN columnas_esperadas.bibliotecas :
        en_columnas(df, columnas_esperadas.bibliotecas[k])

Hecho(op) == ultima.op = op /\ ultima.res = "ok"
Fallido(op) == ultima.op = op /\ ultima.res # "ok"

\* C1: after filtrar_registros_con_biblioteca on a loaded table, every row of
\* the table is in exactly one of registros_validos and registros_descartados:
\* the two share no row and their lengths add up to the length of the table,
\* also for a table with no library column.
C1_ParticionCompleta ==
    [][Hecho("filtrar_registros_con_biblioteca")' =>
          LET v == retorno'.registros_validos
              d == retorno'.registros_descartados
          IN  /\ indices(v) \cap indices(d) = {}
              /\ FilasDe(v) \cap FilasDe(d) = {}
              /\ len(v) + len(d) = len(datos)
              /\ \A f \in FilasDe(datos) : f \in FilasDe(v) \cup FilasDe(d)]_vars

\* A partition with both parts not empty.
C1_Testigo ==
    /\ Hecho("filtrar_registros_con_biblioteca")
    /\ len(retorno.registros_validos) > 0
    /\ len(retorno.registros_descartados) > 0

\* C2 as stated: for every table, also one with no library column, a row is
\* in the valid part iff one of its library columns is not null, and every
\* other row is in the discarded part.
C2_ValidoSiiBiblioteca ==
    [][Hecho("filtrar_registros_con_biblioteca")' =>
          \A f \in FilasDe(datos) :
              /\ f \in FilasDe(retorno'.registros_validos) <=> TieneBiblioteca(f)
              /\ f \in FilasDe(retorno'.registros_descartados) <=> ~TieneBiblioteca(f)]_vars

\* C2 amended: for a table with at least one library column, a row is in the
\* valid part iff one of its library columns is not null and every other row
\* is in the discarded part; for a table with no library column every row is
\* in the valid part, the discarded part is an empty table, and the
\* processor's table and discarded rows stay as they were.
C2_ValidoSiiBibliotecaPresente ==
    [][Hecho("filtrar_registros_con_biblioteca")' =>
          IF HayColumnaBiblioteca(datos)
          THEN \A f \in FilasDe(datos) :
                  /\ f \in FilasDe(retorno'.registros_validos) <=> TieneBiblioteca(f)
                  /\ f \in FilasDe(retorno'.registros_descartados) <=> ~TieneBiblioteca(f)
          ELSE /\ retorno'.registros_validos = datos
               /\ retorno'.registros_descartados = DataFrameVacio
               /\ datos' = datos
               /\ datos_descartados' = datos_descartados]_vars

\* A valid row with a null library column beside a discarded row.
C2_Testigo ==
    /\ Hecho("filtrar_registros_con_biblioteca")
    /\ \E f \in FilasDe(retorno.registros_validos) :
          \E c \in DOMAIN f.celdas : c \in {"Biblioteca_1", "Biblioteca_2"} /\ isna(f.celdas[c])
    /\ \E f \in FilasDe(retorno.registros_descartados) : ~TieneBiblioteca(f)

\* C3 as stated: partition succeeds only after a load, transform only after a
\* partition, save only after a transform.
C3_CadaEtapaTrasLaAnterior ==
    /\ Hecho("filtrar_registros_con_biblioteca") => "cargar_datos" \in hechas
    /\ Hecho("transformar_datos") => "filtrar_registros_con_biblioteca" \in hechas
    /\ Hecho("guardar_resultados") => "transformar_datos" \in hechas

\* C3 amended: partition, transform and save succeed only after a load has
\* succeeded, and each of them called before any load has succeeded fails
\* with ValueError; transform does not need a partition before it, and save
\* does not need a transform.
C3_CadaEtapaTrasLaCarga ==
    \A op \in {"filtrar_registros_con_biblioteca", "transformar_datos",
               "guardar_resultados"} :
        /\ Hecho(op) => "cargar_datos" \in hechas
        /\ (ultima.op = op /\ "cargar_datos" \notin hechas) => ultima.res = "ValueError"

\* A save that succeeded after a load only.
C3_Testigo ==
    /\ Hecho("guardar_resultados")
    /\ hechas = {"cargar_datos", "guardar_resultados"}

\* C4: while datos is None, each of obtener_columnas_disponibles,
\* filtrar_registros_con_biblioteca, transformar_datos and guardar_resultados
\* raises ValueError, leaves datos and datos_descartados as they were and
\* writes no file.
C4_SinCargarFalla ==
    [][(/\ sin_cargar(datos)
        /\ ultima'.op \in {"obtener_columnas_disponibles",
                           "filtrar_registros_con_biblioteca",
                           "transformar_datos", "guardar_resultados"}) =>
          /\ ultima'.res = "ValueError"
          /\ datos' = datos
          /\ datos_descartados' = datos_descartados
          /\ escritos' = NadaEscrito]_vars

\* A save refused before any load.
C4_Testigo ==
    /\ sin_cargar(datos)
    /\ ultima = [op |-> "guardar_resultados", res |-> "ValueError"]
    /\ escritos = NadaEscrito

\* C5: a transformar_datos that fails leaves the processor's table exactly as
\* it was before the call.
C5_TodoONada ==
    [][Fallido("transformar_datos")' => datos' = datos]_vars

\* C6: a transformar_datos that succeeds keeps the rows, their order and the
\* value of every cell the table had before the call, and every column it
\* adds is named after a column of the table plus a suffix (or is one of the
\* two columns of the subject enrichment).
C6_OriginalesIntactos ==
    [][Hecho("transformar_datos")' =>
          /\ len(datos') = len(datos)
          /\ \A i \in DOMAIN datos.filas :
                /\ datos'.filas[i].index = datos.filas[i].index
                /\ \A c \in DOMAIN datos.filas[i].celdas :
                      datos'.filas[i].celdas[c] = datos.filas[i].celdas[c]
          /\ \A j \in DOMAIN datos'.columns :
                \/ en_columnas(datos, datos'.columns[j])
                \/ datos'.columns[j] \in {"tema_general", "score_tema_general"}
                \/ \E k \in DOMAIN datos.columns :
                      /\ startswith(datos'.columns[j], datos.columns[k])
                      /\ Len(datos'.columns[j]) > Len(datos.columns[k])]_vars

\* C22: guardar_resultados on a loaded processor succeeds, writes the table as
\* it is to <stem>_procesado.csv, writes <stem>_descartados.csv, with the
\* discarded rows, if and only if there is a table of discarded rows and it has
\* rows, writes nothing else, and changes neither of the two tables.
C22_GuardaSinCambiar ==
    [][(~sin_cargar(datos) /\ ultima'.op = "guardar_resultados") =>
          LET procesado == stem(ruta_archivo) \o "_procesado.csv"
              descartados == stem(ruta_archivo) \o "_descartados.csv"
              hay_descartados == ~sin_cargar(datos_descartados) /\ len(datos_descartados) > 0
          IN  /\ ultima'.res = "ok"
              /\ procesado \in DOMAIN escritos'
              /\ escritos'[procesado] = to_csv(datos)
              /\ descartados \in DOMAIN escritos' <=> hay_descartados
              /\ hay_descartados => escritos'[descartados] = to_csv(datos_descartados)
              /\ DOMAIN escritos' \subseteq {procesado, descartados}
              /\ datos' = datos
              /\ datos_descartados' = datos_descartados]_vars

\* A save after a partition that discarded a row: both files are written.
C22_Testigo ==
    /\ Hecho("guardar_resultados")
    /\ DOMAIN escritos = {"catalogo_procesado.csv", "catalogo_descartados.csv"}
    /\ len(datos) > 0 /\ len(datos_descartados) > 0
    /\ escritos["catalogo_procesado.csv"] = to_csv(datos)

\* C27: once a partition has been made, after every later call the table and
\* the stored discarded rows share no row and together are the rows of the
\* table last loaded, whatever loads, partitions, transforms and saves came
\* in between.
C27_ParticionConservada ==
    ("filtrar_registros_con_biblioteca" \in hechas /\ ~sin_cargar(datos)) =>
        LET descartados == IF sin_cargar(datos_descartados) THEN {}
                           ELSE indices(datos_descartados)
        IN  /\ indices(datos) \cap descartados = {}
            /\ indices(datos) \cup descartados = indices(contenido)

(***************************************************************************)
(* The claims about the normalisers, checked under SpecNormalizador.       *)
(***************************************************************************)
\* The documented result of each normaliser for a null or empty input.
centinela(c) ==
    CASE c = "lugar" -> Tuple(<<"Lugar no identificado", "">>)
      [] c = "editorial" -> Tuple(<<"Editorial no identificada", "">>)
      [] c = "titulo" -> Str("Sin título")
      [] c = "autor" -> Str("Desconocido")
      [] c = "fecha" -> NaN
      [] c = "periodo" -> None
      [] c = "dewey" -> Str("")

\* C7: for None, NaN and the empty string each of the seven normalisers
\* returns its sentinel and does not raise.
C7_NulosDanCentinela ==
    (valor \in {None, NaN, Str("")} /\ salida.t # "pendiente") =>
        /\ ~raised(salida)
        /\ salida.t = centinela(campo).t
        /\ salida = centinela(campo)

\* C8: each city the place normaliser returns is returned unchanged, with an
\* empty second city, when it is normalised again.
C8_LugarIdempotente ==
    (campo = "lugar" /\ salida2.t = "tuple") =>
        /\ salida2.v[1] = <<salida.v[1], "">>
        /\ salida.v[2] # "" => salida2.v[2] = <<salida.v[2], "">>

\* C9: for a string on which the author normaliser returns a value,
\* normalising that value again returns it unchanged.
C9_AutorIdempotente ==
    (campo = "autor" /\ valor.t = "str" /\ salida2.t # "pendiente") => salida2 = salida

\* C10: for every string, normalising the title the title normaliser
\* returned returns it unchanged.
C10_TituloIdempotente ==
    (campo = "titulo" /\ valor.t = "str" /\ salida2.t # "pendiente") => salida2 = salida

\* The text the years are looked for in: the value without ; # © \ [ ] ?,
\* without the abbreviations and without trailing periods.
FechaLimpia(s) ==
    rstrip_chars(quitar_abreviaturas(remove_chars(s, {";", "#", "©", "\\", "[", "]", "?"})),
                 {"."})

\* The runs of exactly four digits of s.
AniosDeCuatroDigitos(s) ==
    {SubSeq(s, i, i + 3) : i \in {j \in 1..(Len(s) - 3) :
        /\ \A k \in j..(j + 3) : isdigit(Ch(s, k))
        /\ (j = 1 \/ ~isdigit(Ch(s, j - 1)))
        /\ (j + 3 = Len(s) \/ ~isdigit(Ch(s, j + 4)))}}

\* The runs of exactly four digits of s with no letter and no underscore next
\* to them.
AniosDelimitados(s) ==
    {SubSeq(s, i, i + 3) : i \in {j \in 1..(Len(s) - 3) :
        /\ \A k \in j..(j + 3) : isdigit(Ch(s, k))
        /\ (j = 1 \/ ~isword(Ch(s, j - 1)))
        /\ (j + 3 = Len(s) \/ ~isword(Ch(s, j + 4)))}}

ElMayor(Y) == CHOOSE y \in Y : \A z \in Y : to_int(z) <= to_int(y)

\* C11 as stated: for a non-null input the date normaliser returns the
\* greatest of the four-digit years left after the clean-up, and the null
\* marker exactly when there is none.
C11_MayorAnio ==
    (campo = "fecha" /\ valor.t = "str" /\ salida.t # "pendiente") =>
        LET Y == AniosDeCuatroDigitos(FechaLimpia(valor.v))
        IN  IF Y = {} THEN isna(salida) ELSE salida = Str(ElMayor(Y))

\* C11 amended: the years are the runs of four digits that stand alone, with
\* no letter, digit or underscore on either side, in the text left after
\* the clean-up; the greatest of them is returned as a string, and the null
\* marker exactly when there is none.
C11_MayorAnioDelimitado ==
    (campo = "fecha" /\ valor.t = "str" /\ salida.t # "pendiente") =>
        LET Y == AniosDelimitados(FechaLimpia(valor.v))
        IN  IF Y = {} THEN isna(salida) ELSE salida = Str(ElMayor(Y))

\* Two years in the value, the second one the greater.
C11_Testigo ==
    /\ campo = "fecha" /\ valor.t = "str" /\ salida.t = "str"
    /\ Cardinality(AniosDelimitados(FechaLimpia(valor.v))) = 2
    /\ startswith(valor.v, "2019")
    /\ salida = Str("2020")

\* The segments of a place value: the text with ';' read as ',', without
\* : [ ] © and parenthesised asides, split on ',' and trimmed.
SegmentosDeLugar(v) ==
    strip_each(split(collapse_ws(quitar_parentesis(
        replace(replace(replace(replace(replace(strip(v),
            ";", ","), ":", ""), "[", ""), "]", ""), "©", ""))), ","))

EsParDeCadenas(x) ==
    /\ x.t = "tuple"
    /\ Len(x.v) = 2
    /\ \A i \in 1..2 : Len(x.v[i]) >= 0

\* C12 as stated: the place normaliser always returns a pair of strings; for
\* a string, city1 is the cleaned first segment (the sentinel if nothing is
\* left of it) and city2 the cleaned second segment, "" if there is only
\* one; later segments are dropped.
C12_DosPrimerasCiudades ==
    (campo = "lugar" /\ salida.t # "pendiente") =>
        /\ EsParDeCadenas(salida)
        /\ valor.t = "str" =>
              LET segs == SegmentosDeLugar(valor.v)
              IN  salida.v = <<IF normalizar_ciudad(segs[1]) = ""
                               THEN "Lugar no identificado"
                               ELSE normalizar_ciudad(segs[1]),
                               IF Len(segs) >= 2 THEN normalizar_ciudad(segs[2]) ELSE "">>

\* C12 amended: as stated when the cleaned first city is not empty; when it
\* is empty the result is ("Lugar no identificado", "") and the second
\* segment is dropped too.
C12_DosPrimerasCiudadesSalvoVacia ==
    (campo = "lugar" /\ salida.t # "pendiente") =>
        /\ EsParDeCadenas(salida)
        /\ valor.t = "str" =>
              LET segs == SegmentosDeLugar(valor.v)
              IN  IF normalizar_ciudad(segs[1]) = ""
                  THEN salida.v = <<"Lugar no identificado", "">>
                  ELSE salida.v = <<normalizar_ciudad(segs[1]),
                                    IF Len(segs) >= 2 THEN normalizar_ciudad(segs[2])
                                    ELSE "">>

\* Three cities in the value, the first two returned.
C12_Testigo ==
    /\ campo = "lugar" /\ valor.t = "str" /\ salida.t = "tuple"
    /\ Len(SegmentosDeLugar(valor.v)) = 3
    /\ salida.v = <<"Lima", "Lima">>
    /\ SegmentosDeLugar(valor.v)[3] = "Bogota"

\* The normalisation of each ';'-separated segment of an author string.
AutoresPorSegmento(v) ==
    LET segs == split(v, ";")
    IN  [i \in DOMAIN segs |-> normalizar_nombre_autor(Str(segs[i]))]

\* C13: for an author string that contains ';' and whose segments each have
\* a normalisation, the result is the normalisation of each segment taken on
\* its own, joined with "; " in the order of the segments.
C13_AutorPorSegmentos ==
    (campo = "autor" /\ valor.t = "str" /\ contains(valor.v, ";")
        /\ salida.t # "pendiente") =>
        LET partes == AutoresPorSegmento(valor.v)
        IN  (\A i \in DOMAIN partes : partes[i].t = "str") =>
                salida = Str(join([i \in DOMAIN partes |-> partes[i].v], "; "))

\* The first run of digits of s, "" if s has no digit.
PrimeraSerieDeDigitos(s) ==
    LET P == {i \in 1..Len(s) : isdigit(Ch(s, i))}
        i0 == CHOOSE i \in P : \A j \in P : i <= j
        F == {j \in i0..Len(s) : \A k \in i0..j : isdigit(Ch(s, k))}
    IN  IF P = {} THEN "" ELSE SubSeq(s, i0, CHOOSE j \in F : \A k \in F : k <= j)

ClasesDewey == {"", "0", "R", "100", "200", "300", "400", "500", "600", "700",
                "800", "900"}

C15_ReferenciaDaR ==
    (campo = "dewey" /\ valor.t = "str" /\ startswith(strip(valor.v), "R")
        /\ salida.t # "pendiente") => salida = Str("R")

SoloDigitos(s) == s # "" /\ \A i \in 1..Len(s) : isdigit(Ch(s, i))

PeriodoLimpio(s) == un_espacio(strip(lower(s)))

\* The years of a period text: every group of four consecutive digits, a
\* longer run of digits read in groups of four from its first digit.
AniosDelPeriodo(s) ==
    {to_int(SubSeq(s, i, i + 3)) : i \in {j \in 1..(Len(s) - 3) :
        /\ \A k \in j..(j + 3) : isdigit(Ch(s, k))
        /\ LET ini == CHOOSE a \in 1..j :
                         /\ \A k \in a..j : isdigit(Ch(s, k))
                         /\ (a = 1 \/ ~isdigit(Ch(s, a - 1)))
           IN  (j - ini) % 4 = 0}}

EsRomanoEnMayusculas(s) ==
    \A k \in 1..Len(s) : Ch(s, k) \in {"I", "V", "X", "L", "C", "D", "M"}

C17_TestigoAnio ==
    /\ campo = "periodo" /\ valor.t = "str" /\ salida = Str("XXI")
    /\ AniosDelPeriodo(PeriodoLimpio(valor.v)) = {2013}
    /\ siglos_encontrados(PeriodoLimpio(valor.v)) # <<>>

(***************************************************************************)
(* The claims about the subject matcher, checked under SpecMaterias.       *)
(***************************************************************************)
\* The greatest cosine similarity of a subject, normalised, to a candidate.
MayorSimilitud(materia) ==
    LET fila == coseno[normalizar_texto(materia)]
    IN  CHOOSE p \in Puntos :
            /\ \E j \in DOMAIN terminos : fila[terminos[j].etiqueta] = p
            /\ \A j \in DOMAIN terminos : fila[terminos[j].etiqueta] <= p

\* The term that stands for a subject with no accepted match.
Sustituto(materia) ==
    [notacion |-> "", etiqueta |-> materia, uri |-> "", nivel |-> 0, hijos |-> <<>>,
     notacion_padre |-> None, etiqueta_padre |-> None]

\* C18: encontrar_termino_similar(termino, umbral) returns a pair, never an
\* exception; its second part is the greatest cosine similarity s of the
\* normalised subject to the candidates; its first part is a candidate of
\* similarity s when s >= umbral, and otherwise a term whose label is the
\* subject as given, with empty notation and uri, level 0 and no children.
C18_MejorOSustituto ==
    llamada.op = "encontrar_termino_similar" =>
        LET s == MayorSimilitud(llamada.termino)
        IN  /\ resultado.t = "tuple"
            /\ resultado.v[2] = Float(s)
            /\ IF s >= llamada.umbral
               THEN \E j \in DOMAIN terminos :
                       /\ resultado.v[1] = terminos[j]
                       /\ coseno[normalizar_texto(llamada.termino)][terminos[j].etiqueta] = s
               ELSE resultado.v[1] = Sustituto(llamada.termino)

\* A subject that its normalisation changes, below the threshold: the term
\* returned carries the subject as given, and the low score.
C18_Testigo ==
    /\ llamada.op = "encontrar_termino_similar"
    /\ llamada.termino = "Á (x)" /\ llamada.umbral = 30
    /\ resultado.t = "tuple"
    /\ resultado.v[1].etiqueta = "Á (x)" /\ resultado.v[1].nivel = 0
    /\ resultado.v[2] = Float(20)

\* The subjects of a value: its pieces between semicolons, trimmed.
MateriasDe(l) == [i \in DOMAIN split(l, ";") |-> strip(split(l, ";")[i])]

\* C19: procesar_linea returns the result of matching one of the trimmed
\* subjects of the value, one whose score no other subject exceeds and that
\* no earlier subject equals: the first of those with the highest score.
C19_PrimeroDeLosMejores ==
    llamada.op = "procesar_linea" =>
        LET ms == MateriasDe(llamada.linea)
        IN  \E i \in DOMAIN ms :
                /\ \A k \in DOMAIN ms : MayorSimilitud(ms[k]) <= MayorSimilitud(ms[i])
                /\ \A k \in 1..(i - 1) : MayorSimilitud(ms[k]) < MayorSimilitud(ms[i])
                /\ resultado.termino_original = ms[i]
                /\ resultado.score = Float(MayorSimilitud(ms[i]))
                /\ IF MayorSimilitud(ms[i]) >= llamada.umbral
                   THEN \E j \in DOMAIN terminos :
                           resultado.termino_sugerido = terminos[j]
                   ELSE resultado.termino_sugerido = Sustituto(ms[i])

\* Two different subjects with the same score, below the threshold: the
\* result is that of the first.
C19_Testigo ==
    /\ llamada.op = "procesar_linea"
    /\ llamada.linea = "a; Á (x)" /\ llamada.umbral = 30
    /\ resultado.termino_original = "a"
    /\ resultado.termino_sugerido.etiqueta = "a"
    /\ resultado.score = Float(20)

\* C20: for every row with a subject, the label the batched procesar_dataframe
\* writes is the label procesar_linea gives that row with the same candidates
\* and the acceptance threshold.
C20_LotesComoLineas ==
    llamada.op = "procesar_dataframe" =>
        \A i \in DOMAIN resultado.filas :
            LET tema == llamada.df.filas[i].celdas[columnas_esperadas.temas]
            IN  ~isna(tema) =>
                    resultado.filas[i].celdas["tema_general"] =
                        Str(procesar_linea(tema.v, umbral_procesar_linea)
                                .termino_sugerido.etiqueta)

\* C21: the batched procesar_dataframe keeps the rows and their index labels;
\* each row with a subject gets, in its own row, a candidate label of greatest
\* similarity to its normalised subject and that similarity as score, whatever
\* the index of the table; each row without subject gets no topic and no
\* score, and no row has any other cell changed.
C21_EscritoEnSuFila ==
    llamada.op = "procesar_dataframe" =>
        LET df == llamada.df
            col == columnas_esperadas.temas
        IN  /\ Len(resultado.filas) = Len(df.filas)
            /\ \A i \in DOMAIN df.filas :
                  LET antes == df.filas[i]
                      despues == resultado.filas[i]
                  IN  /\ despues.index = antes.index
                      /\ DOMAIN despues.celdas =
                             DOMAIN antes.celdas \cup {"tema_general", "score_tema_general"}
                      /\ \A c \in DOMAIN antes.celdas : despues.celdas[c] = antes.celdas[c]
                      /\ IF isna(antes.celdas[col])
                         THEN /\ despues.celdas["tema_general"] = NaN
                              /\ despues.celdas["score_tema_general"] = NaN
                         ELSE LET s == MayorSimilitud(antes.celdas[col].v)
                                  fila == coseno[normalizar_texto(antes.celdas[col].v)]
                              IN  /\ despues.celdas["score_tema_general"] = Float(s)
                                  /\ despues.celdas["tema_general"].t = "str"
                                  /\ \E j \in DOMAIN terminos :
                                        /\ despues.celdas["tema_general"].v
                                               = terminos[j].etiqueta
                                        /\ fila[terminos[j].etiqueta] = s

\* A table whose index is 1, 3, 4 and whose first row has no subject: the two
\* other rows get different labels and scores, the first row none.
C21_Testigo ==
    /\ llamada.op = "procesar_dataframe"
    /\ llamada.df = TablaFiltradaDe(linea)
    /\ resultado.filas[1].celdas["tema_general"] = NaN
    /\ resultado.filas[2].index = 3 /\ resultado.filas[3].index = 4
    /\ resultado.filas[2].celdas["tema_general"] = Str("Historia")
    /\ resultado.filas[3].celdas["tema_general"] = Str("Arte")
    /\ resultado.filas[2].celdas["score_tema_general"] = Float(20)
    /\ resultado.filas[3].celdas["score_tema_general"] = Float(60)

\* C23: for every string the author normaliser returns a string that is not
\* empty, a name or "Desconocido", and raises nothing, also for a string made
\* of punctuation only.
C23_AutorNuncaFalla ==
    (campo = "autor" /\ valor.t = "str" /\ salida.t # "pendiente") =>
        salida.t = "str" /\ salida.v # ""

\* C24: for every string the title the title normaliser returns has no white
\* space at either end and does not end with '/', ',' or ':', also when such
\* a character is followed in the input by one of the characters removed.
C24_TituloSinColaDePuntuacion ==
    (campo = "titulo" /\ valor.t = "str" /\ salida.t # "pendiente") =>
        /\ salida.t = "str"
        /\ strip(salida.v) = salida.v
        /\ salida.v # "" => Ch(salida.v, Len(salida.v)) \notin {"/", ",", ":"}

\* C25: in each city the place normaliser returns from a segment (one that is
\* not replaced by the sentinel), every alias key that occurs in the segment
\* has given way to its canonical name: the city holds the canonical name, and
\* holds the key no more unless the canonical name itself holds it; this also
\* when the segment holds more than one key.
C25_AliasEnCadaSegmento ==
    (campo = "lugar" /\ valor.t = "str" /\ salida.t = "tuple") =>
        LET segs == SegmentosDeLugar(valor.v)
        IN  \A i \in 1..2 :
                (i <= Len(segs) /\ salida.v[i] \notin {"Lugar no identificado", ""}) =>
                    \A a \in DOMAIN normalizaciones_ciudades :
                        LET clave == normalizaciones_ciudades[a][1]
                            canonico == normalizaciones_ciudades[a][2]
                        IN  contains(segs[i], clave) =>
                                /\ contains(salida.v[i], canonico)
                                /\ ~contains(canonico, clave) =>
                                       ~contains(salida.v[i], clave)

(***************************************************************************)
(* The claim about the thesaurus, checked under SpecVocabulario.           *)
(***************************************************************************)
\* Every term of the subtree of t, whose parent is padre (None for a root),
\* has the level and the parent fields that its place in the tree calls for.
RECURSIVE NivelesEnOrden(_, _)
NivelesEnOrden(t, padre) ==
    /\ IF padre = None
       THEN t.nivel = 1 /\ t.notacion_padre = None /\ t.etiqueta_padre = None
       ELSE /\ t.nivel = padre.v.nivel + 1
            /\ t.notacion_padre = Str(padre.v.notacion)
            /\ t.etiqueta_padre = Str(padre.v.etiqueta)
    /\ \A k \in DOMAIN t.hijos : NivelesEnOrden(t.hijos[k], [t |-> "termino", v |-> t])

\* C26: in every tree extraer_vocabulario returns, a root has level 1 and no
\* parent notation or label, and a child has its parent's level plus 1 and
\* its parent's notation and label.
C26_NivelesDelArbol ==
    (llamada.op = "extraer_vocabulario" /\ resultado.t = "list") =>
        \A r \in DOMAIN resultado.v : NivelesEnOrden(resultado.v[r], None)

\* C28: for every input the period normaliser returns null or a well-formed
\* upper-case Roman numeral of a century from 1 on, and never the empty
\* string, whatever four-digit year the text holds.
C28_SigloBienFormado ==
    (campo = "periodo" /\ salida.t # "pendiente") =>
        \/ salida = None
        \/ /\ salida.t = "str"
           /\ salida.v # ""
           /\ EsRomanoEnMayusculas(salida.v)
           /\ valor_siglo_romano(salida.v) >= 1
           /\ a_romano(valor_siglo_romano(salida.v), 1) = salida.v

\* C29: for every input the publisher normaliser returns a pair whose first
\* name is not the empty string: "Editorial no identificada" or a cleaned name,
\* also for an input of which the clean-up leaves nothing.
C29_EditorialPrincipalNoVacia ==
    (campo = "editorial" /\ salida.t # "pendiente") =>
        /\ salida.t = "tuple"
        /\ Len(salida.v) = 2
        /\ salida.v[1] # ""

\* C30: procesar_linea with threshold umbral returns a candidate term, never
\* the substitute, when some subject of the value has a greatest similarity
\* of umbral or more; it returns the substitute only when every subject is
\* below umbral, and the substitute then carries a subject of highest score.
C30_SustitutoSoloSiTodosBajos ==
    llamada.op = "procesar_linea" =>
        LET ms == MateriasDe(llamada.linea)
            sugerido == resultado.termino_sugerido
        IN  IF \E k \in DOMAIN ms : MayorSimilitud(ms[k]) >= llamada.umbral
            THEN /\ \E j \in DOMAIN terminos : sugerido = terminos[j]
                 /\ \A k \in DOMAIN ms : sugerido # Sustituto(ms[k])
            ELSE \E i \in DOMAIN ms :
                    /\ sugerido = Sustituto(ms[i])
                    /\ \A k \in DOMAIN ms : MayorSimilitud(ms[k]) <= MayorSimilitud(ms[i])

\* A value whose first subject is below the threshold and whose second is
\* not: the candidate matched by the second is returned.
C30_Testigo ==
    /\ llamada.op = "procesar_linea"
    /\ llamada.linea = "a;b " /\ llamada.umbral = 30
    /\ MayorSimilitud("a") = 20 /\ MayorSimilitud("b") = 60
    /\ resultado.termino_original = "b"
    /\ resultado.termino_sugerido.nivel = 2

=============================================================================
